---- MODULE Spec2Model ----
(***************************************************************************)
(* Engagement ledger of meteor_api (user_side/views.py): like toggle,      *)
(* favorite add/remove, watch progress and comments, with the              *)
(* denormalised counters on Anime and Episode, and the anonymous-session   *)
(* tracking of user_side/mixins.py that resolves the actor of a request.   *)
(* Every ORM statement of a handler is one step:                           *)
(* the project opens no transaction (no transaction.atomic, no             *)
(* ATOMIC_REQUESTS in src/), so each statement commits on its own and      *)
(* other requests may run between two statements of a handler.             *)
(***************************************************************************)
EXTENDS Integers, FiniteSets, Sequences, TLC

VARIABLES
    pc,             \* pc[p]: the statement request handler p is about to run
    req,            \* req[p]: the request's parameters and the handler's locals
    resp,           \* resp[p]: the response handler p returned
    nreq,           \* number of requests received so far
    sessions,       \* AnonymousSession rows
    likes,          \* Like rows
    favorites,      \* Favorite rows
    watches,        \* WatchHistory rows
    comments,       \* Comment rows
    animes,         \* animes[a]: the counter columns of Anime row a
    episodes,       \* episodes[e]: the counter columns of Episode row e
    nextId,         \* nextId[table]: the next auto-increment primary key
    favOps,         \* history: favOps[k], the favorite calls actor k completed
    viewsCounted,   \* history: view increments made by recordWatch per actor
    tracked         \* history: track_anonymous_session calls returned per token

vars == <<pc, req, resp, nreq, sessions, likes, favorites, watches, comments,
          animes, episodes, nextId, favOps, viewsCounted, tracked>>

----------------------------------------------------------------------------
(* Bounds of the model *)

\* requests received in one behaviour of a sequential specification
MaxSeqReq == 4
\* requests received in one behaviour of a concurrent specification
MaxConcReq == 3
\* listing requests received in one behaviour
MaxTrackReq == 5
\* requests received in one behaviour of a two-caller race
MaxRaceReq == 2
\* requests received in one behaviour of all handlers together
MaxAllReq == 2
\* requests received in one behaviour of episode views and recordWatch calls
MaxViewReq == 2
\* comment requests received in one behaviour
MaxCommentReq == 3
\* primary keys a comment request may name
MaxComments == 2
\* the longest episode, in seconds, of the validation cases
MaxDuration == 120

Procs == {"p1", "p2"}
Users == {"u1"}
Tokens == {"s1"}
Animes == {"A1"}
Episodes == {"E1"}
\* every stored episode: comments are also posted to a second one
AllEpisodes == Episodes \cup {"E2"}
Null == "null"

\* What a request carries: request.user when it is authenticated (Null when it
\* is not) and the X-Session-Token header (Null when absent).
Creds == [user : Users \cup {Null}, token : Tokens \cup {Null}]

----------------------------------------------------------------------------
(* The catalog: the columns of User, Anime and Episode that no handler writes *)

\* timezone.now(), on a clock where NoExpiry stands for a NULL premium_expires_at
Now == 2

NoExpiry == 0

\* User.is_premium and User.premium_expires_at: u3's premium runs until 3,
\* u4's ended at 1
UserTable ==
    ("u1" :> [is_premium |-> FALSE, premium_expires_at |-> NoExpiry]) @@
    ("u2" :> [is_premium |-> FALSE, premium_expires_at |-> NoExpiry]) @@
    ("u3" :> [is_premium |-> TRUE, premium_expires_at |-> 3]) @@
    ("u4" :> [is_premium |-> TRUE, premium_expires_at |-> 1])

\* Anime.id, slug, is_published and is_premium_only: A2 is unpublished, A3 is
\* premium-only
AnimeTable ==
    ("A1" :> [id |-> 1, slug |-> "naruto", is_published |-> TRUE,
              is_premium_only |-> FALSE]) @@
    ("A2" :> [id |-> 2, slug |-> "bleach", is_published |-> FALSE,
              is_premium_only |-> FALSE]) @@
    ("A3" :> [id |-> 3, slug |-> "monster", is_published |-> TRUE,
              is_premium_only |-> TRUE])

\* Episode.id, slug, anime, is_published and is_premium_only: E3 is
\* unpublished, E4 belongs to the premium-only anime, E5 is premium-only, E6
\* belongs to the unpublished anime
EpisodeTable ==
    ("E1" :> [id |-> 1, slug |-> "naruto-1", anime |-> "A1", is_published |-> TRUE,
              is_premium_only |-> FALSE]) @@
    ("E2" :> [id |-> 2, slug |-> "naruto-2", anime |-> "A1", is_published |-> TRUE,
              is_premium_only |-> FALSE]) @@
    ("E3" :> [id |-> 3, slug |-> "naruto-3", anime |-> "A1", is_published |-> FALSE,
              is_premium_only |-> FALSE]) @@
    ("E4" :> [id |-> 4, slug |-> "monster-1", anime |-> "A3", is_published |-> TRUE,
              is_premium_only |-> FALSE]) @@
    ("E5" :> [id |-> 5, slug |-> "naruto-5", anime |-> "A1", is_published |-> TRUE,
              is_premium_only |-> TRUE]) @@
    ("E6" :> [id |-> 6, slug |-> "bleach-1", anime |-> "A2", is_published |-> TRUE,
              is_premium_only |-> FALSE])

\* (user, anonymous_session) pairs that identify an actor
ActorKeys ==
    {<<u, Null>> : u \in DOMAIN UserTable} \cup {<<Null, s>> : s \in Tokens}

\* The identifiers a URL may carry.  "U+00B2" stands for the one-character
\* string SUPERSCRIPT TWO.
AnimeIdentifiers == {"1", "2", "9", "NARUTO", "U+00B2"}

EpisodeIdentifiers == {"1", "3", "4", "9", "naruto-1", "U+00B2"}

\* int(s) for the strings int() accepts
IntOf ==
    ("1" :> 1) @@ ("2" :> 2) @@ ("3" :> 3) @@ ("4" :> 4) @@ ("5" :> 5) @@
    ("6" :> 6) @@ ("9" :> 9)

\* str.isdigit(): true of decimal strings and of SUPERSCRIPT TWO, a digit
\* that is no decimal
IsDigit(s) == s \in DOMAIN IntOf \/ s = "U+00B2"

\* int(identifier) raises ValueError: the handlers call it, outside every
\* try, whenever identifier.isdigit()
RaisesValueError(identifier) == IsDigit(identifier) /\ identifier \notin DOMAIN IntOf

\* The case folding of iexact on the slugs in use
Lower(s) == IF s = "NARUTO" THEN "naruto" ELSE s

\* anime_filter / episode_filter: {'id': int(identifier)} when
\* identifier.isdigit(), else {'slug__iexact': identifier}
IdentifierMatches(identifier, row) ==
    IF IsDigit(identifier) THEN row.id = IntOf[identifier]
    ELSE Lower(row.slug) = Lower(identifier)

\* Anime.objects.get(**anime_filter, is_published=True), as a set of at most
\* one anime
GetAnime(identifier) ==
    {a \in DOMAIN AnimeTable :
        AnimeTable[a].is_published /\ IdentifierMatches(identifier, AnimeTable[a])}

\* Episode.objects.get(anime=anime, **episode_filter, is_published=True)
GetEpisode(anime, identifier) ==
    {e \in DOMAIN EpisodeTable :
        /\ EpisodeTable[e].anime = anime
        /\ EpisodeTable[e].is_published
        /\ IdentifierMatches(identifier, EpisodeTable[e])}

Unresolved(status, message) ==
    [status |-> status, message |-> message, anime |-> Null, episode |-> Null]

\* The head of post() and delete(): the anime, then the episode when the URL
\* names one (episode_identifier is Null when it does not).  Status 200 stands
\* for 'resolved'; an uncaught ValueError is answered 500 by the framework.
ResolveTarget(anime_identifier, episode_identifier) ==
    IF RaisesValueError(anime_identifier)
    THEN Unresolved(500, "Server Error (500)")
    ELSE IF GetAnime(anime_identifier) = {}
    THEN Unresolved(404, "Anime not found")
    ELSE LET anime == CHOOSE a \in GetAnime(anime_identifier) : TRUE
         IN  IF episode_identifier = Null
             THEN [status |-> 200, message |-> "", anime |-> anime, episode |-> Null]
             ELSE IF RaisesValueError(episode_identifier)
             THEN Unresolved(500, "Server Error (500)")
             ELSE IF GetEpisode(anime, episode_identifier) = {}
             THEN Unresolved(404, "Episode not found")
             ELSE [status |-> 200, message |-> "", anime |-> anime,
                   episode |-> CHOOSE e \in GetEpisode(anime, episode_identifier) :
                                   TRUE]

----------------------------------------------------------------------------
(* Storage: rows, columns, constraints *)

\* The counter columns models.py declares.  Neither model declares
\* total_dislikes.
AnimeRow0 ==
    [total_views |-> 0, total_favorites |-> 0, total_likes |-> 0,
     total_comments |-> 0]

EpisodeRow0 ==
    [total_likes |-> 0, duration_seconds |-> 10, total_comments |-> 0,
     total_views |-> 0]

\* QuerySet.update(**kwargs) resolves every keyword against the model's fields
\* before it runs any SQL: an unknown name raises FieldDoesNotExist.
FieldsExist(row, deltas) == DOMAIN deltas \subseteq DOMAIN row

\* An update that writes a sum made in process memory from a stale zero.
ApplyUpdate_FromMemory(row, deltas) ==
    [f \in DOMAIN row |-> IF f \in DOMAIN deltas THEN deltas[f] ELSE row[f]]

\* update(col = F(col) + d, ...): one UPDATE statement, atomic in the database.
ApplyUpdate(row, deltas) ==
    [f \in DOMAIN row |-> IF f \in DOMAIN deltas THEN row[f] + deltas[f] ELSE row[f]]

\* A column's stored value; a column the model does not declare stores nothing.
Stored(row, f) == IF f \in DOMAIN row THEN row[f] ELSE 0

\* The first row of a queryset ordered by primary key, as a set of at most one row.
First(rows) == {r \in rows : \A o \in rows : r.id <= o.id}

\* A Like table without its unique constraints.
LikeUniqueOK_NoConstraint(rows) == TRUE

\* Like.Meta.constraints: the four conditional unique constraints (and the
\* primary key).
LikeUniqueOK(rows) ==
    \A r1, r2 \in rows : r1 # r2 =>
        /\ r1.id # r2.id
        /\ ~(/\ r1.user # Null /\ r1.anime # Null /\ r1.episode = Null
             /\ r2.user # Null /\ r2.anime # Null /\ r2.episode = Null
             /\ r1.user = r2.user /\ r1.anime = r2.anime)
        /\ ~(/\ r1.user # Null /\ r1.episode # Null
             /\ r2.user # Null /\ r2.episode # Null
             /\ r1.user = r2.user /\ r1.episode = r2.episode)
        /\ ~(/\ r1.anonymous_session # Null /\ r1.anime # Null /\ r1.episode = Null
             /\ r2.anonymous_session # Null /\ r2.anime # Null /\ r2.episode = Null
             /\ r1.anonymous_session = r2.anonymous_session /\ r1.anime = r2.anime)
        /\ ~(/\ r1.anonymous_session # Null /\ r1.episode # Null
             /\ r2.anonymous_session # Null /\ r2.episode # Null
             /\ r1.anonymous_session = r2.anonymous_session
             /\ r1.episode = r2.episode)

----------------------------------------------------------------------------
(* Actor resolution: AnonymousSessionTrackingMixin *)

\* get_user_or_session: (request.user, None) when the request is authenticated,
\* else (None, track_anonymous_session())
ResolveUser(cred) == cred.user

\* A resolution that tracks the token of an authenticated request too.
ResolveSession_TokenFirst(cred) == cred.token

\* track_anonymous_session returns None for an authenticated request and for
\* a request without X-Session-Token
ResolveSession(cred) == IF cred.user # Null THEN Null ELSE cred.token

\* A tracking without its guards: a session row for whatever the request
\* carries.
TrackSession_Unguarded(rows, cred) ==
    rows \cup {[session_token |-> cred.token, total_visits |-> 1]}

\* track_anonymous_session: get_or_create on session_token, total_visits 1 on
\* creation and F('total_visits') + 1 afterwards.
TrackSession(rows, cred) ==
    LET token == ResolveSession(cred)
    IN  IF token = Null THEN rows
        ELSE IF \E s \in rows : s.session_token = token
             THEN {IF s.session_token = token
                   THEN [s EXCEPT !.total_visits = @ + 1] ELSE s : s \in rows}
             ELSE rows \cup {[session_token |-> token, total_visits |-> 1]}

\* history: one more track_anonymous_session call returned a session
CountTracked(counts, cred) ==
    IF ResolveSession(cred) = Null THEN counts
    ELSE [counts EXCEPT ![ResolveSession(cred)] = @ + 1]

NoReq == [op |-> "none"]
NoResp == [status |-> 0, success |-> FALSE, message |-> "", action |-> ""]

Response(status, success, message, action) ==
    [status |-> status, success |-> success, message |-> message, action |-> action]

\* No request is being handled: the next one is handled alone.
Idle == \A p \in Procs : pc[p] = "idle"

\* Every request received has been answered.
Quiescent == \A p \in Procs : pc[p] \in {"idle", "done"}

Init ==
    /\ pc = [p \in Procs |-> "idle"]
    /\ req = [p \in Procs |-> NoReq]
    /\ resp = [p \in Procs |-> NoResp]
    /\ nreq = 0
    /\ sessions = {}
    /\ likes = {}
    /\ favorites = {}
    /\ watches = {}
    /\ comments = {}
    /\ animes = [a \in DOMAIN AnimeTable |-> AnimeRow0]
    /\ episodes = [e \in DOMAIN EpisodeTable |-> EpisodeRow0]
    /\ nextId = [t \in {"like", "favorite", "watch", "comment"} |-> 1]
    /\ favOps = [k \in ActorKeys |-> <<>>]
    /\ viewsCounted = [k \in ActorKeys |-> [episode |-> 0, anime |-> 0]]
    /\ tracked = [s \in Tokens |-> 0]

\* The handler returns: the next request may reuse the worker.
Finish(p) ==
    /\ pc[p] = "done"
    /\ pc' = [pc EXCEPT ![p] = "idle"]
    /\ req' = [req EXCEPT ![p] = NoReq]
    /\ resp' = [resp EXCEPT ![p] = NoResp]
    /\ UNCHANGED <<comments, nreq, sessions, tracked, likes, favorites, watches, animes,
                   episodes, nextId, favOps, viewsCounted>>

----------------------------------------------------------------------------
(* LikeToggleView.post *)

\* lookup_filter: the target is the episode when one is addressed, else the anime
LikeLookup(r) ==
    {l \in likes :
        /\ IF r.episode # Null
           THEN l.episode = r.episode /\ l.anime = Null
           ELSE l.anime = r.anime /\ l.episode = Null
        /\ IF r.user # Null
           THEN l.user = r.user /\ l.anonymous_session = Null
           ELSE l.anonymous_session = r.anonymous_session /\ l.user = Null}

\* A handler that saves the row again where it should delete it.
LikeTransition_KeepOnRepeat(existing, is_like) ==
    IF existing = {} THEN "create" ELSE "update"

\* The branch the handler takes on what it read: none -> create, the same
\* value -> delete, the other value -> update.
LikeTransition(existing, is_like) ==
    IF existing = {} THEN "create"
    ELSE IF (CHOOSE l \in existing : TRUE).is_like = is_like THEN "delete"
    ELSE "update"

\* The counter columns the handler updates after the record change.
LikeCounterDeltas(kind, old_is_like, is_like) ==
    CASE kind = "delete" ->
            IF is_like THEN ("total_likes" :> -1) ELSE ("total_dislikes" :> -1)
      [] kind = "update" ->
            IF old_is_like
            THEN ("total_likes" :> -1) @@ ("total_dislikes" :> 1)
            ELSE ("total_likes" :> 1) @@ ("total_dislikes" :> -1)
      [] kind = "create" ->
            IF is_like THEN ("total_likes" :> 1) ELSE ("total_dislikes" :> 1)

LikeAction(kind) ==
    CASE kind = "delete" -> "removed"
      [] kind = "update" -> "updated"
      [] kind = "create" -> "created"

\* post() with the anime and the episode its identifiers resolved to: the
\* actor, and the 400 of a request without one
LikeResolved(p, max, cred, anime, episode, is_like) ==
    /\ pc[p] = "idle"
    /\ nreq < max
    /\  LET user == ResolveUser(cred)
            anon == ResolveSession(cred)
        IN  /\ req' = [req EXCEPT ![p] =
                    [op |-> "like", user |-> user, anonymous_session |-> anon,
                     token |-> cred.token,
                     anime |-> anime, episode |-> episode, is_like |-> is_like,
                     existing |-> {}, wrote |-> {}]]
            /\ sessions' = TrackSession(sessions, cred)
            /\ tracked' = CountTracked(tracked, cred)
            /\ IF user = Null /\ anon = Null
               THEN /\ pc' = [pc EXCEPT ![p] = "done"]
                    /\ resp' = [resp EXCEPT ![p] = Response(400, FALSE,
                            "Unable to process like without user or session", "")]
               ELSE /\ pc' = [pc EXCEPT ![p] = "like_read"]
                    /\ UNCHANGED resp
    /\ nreq' = nreq + 1
    /\ UNCHANGED <<comments, likes, favorites, watches, animes, episodes, nextId, favOps,
                   viewsCounted>>

LikeBegin(p, max) ==
    \E cred \in Creds, anime \in Animes, episode \in Episodes \cup {Null},
       is_like \in BOOLEAN :
        LikeResolved(p, max, cred, anime, episode, is_like)

\* existing_like = Like.objects.filter(**lookup_filter).first()
LikeRead(p) ==
    /\ pc[p] = "like_read"
    /\ req' = [req EXCEPT ![p].existing = First(LikeLookup(req[p]))]
    /\ pc' = [pc EXCEPT ![p] = "like_write"]
    /\ UNCHANGED <<comments, resp, nreq, sessions, tracked, likes, favorites, watches, animes,
                   episodes, nextId, favOps, viewsCounted>>

\* A create that stores the anime beside the episode of an episode like.
LikeRowsAfter_BothTargets(r, kind) ==
    IF kind = "delete"
    THEN {l \in likes : \A x \in r.existing : l.id # x.id}
    ELSE IF kind = "update"
    THEN LET x == CHOOSE l \in r.existing : TRUE
             saved == [x EXCEPT !.is_like = r.is_like]
         IN  {l \in likes : l.id # x.id} \cup {saved}
    ELSE likes \cup
           {[id |-> nextId["like"], user |-> r.user,
             anonymous_session |-> r.anonymous_session,
             anime |-> r.anime, episode |-> r.episode, is_like |-> r.is_like]}

\* The rows after existing_like.delete(), existing_like.save() or
\* Like.objects.create(): save() updates the row with that primary key and
\* inserts it when no row was updated.
LikeRowsAfter(r, kind) ==
    IF kind = "delete"
    THEN {l \in likes : \A x \in r.existing : l.id # x.id}
    ELSE IF kind = "update"
    THEN LET x == CHOOSE l \in r.existing : TRUE
             saved == [x EXCEPT !.is_like = r.is_like]
         IN  {l \in likes : l.id # x.id} \cup {saved}
    ELSE likes \cup
           {[id |-> nextId["like"], user |-> r.user,
             anonymous_session |-> r.anonymous_session,
             anime |-> IF r.episode # Null THEN Null ELSE r.anime,
             episode |-> r.episode, is_like |-> r.is_like]}

LikeWrite(p) ==
    /\ pc[p] = "like_write"
    /\ LET r == req[p]
           kind == LikeTransition(r.existing, r.is_like)
           after == LikeRowsAfter(r, kind)
       IN  IF LikeUniqueOK(after)
           THEN /\ likes' = after
                /\ nextId' = IF kind = "create"
                             THEN [nextId EXCEPT !["like"] = @ + 1] ELSE nextId
                /\ req' = [req EXCEPT ![p].wrote = @ \cup {"record"}]
                /\ pc' = [pc EXCEPT ![p] = "like_count"]
                /\ UNCHANGED resp
           ELSE \* IntegrityError, caught by the handler's except Exception
                /\ pc' = [pc EXCEPT ![p] = "done"]
                /\ resp' = [resp EXCEPT ![p] =
                                Response(500, FALSE, "Failed to process like", "")]
                /\ UNCHANGED <<likes, nextId, req>>
    /\ UNCHANGED <<comments, nreq, sessions, tracked, favorites, watches, animes,
                   episodes, favOps, viewsCounted>>

\* The row whose counters a like on r's target updates.
LikeTargetRow(r) ==
    IF r.episode # Null THEN episodes[r.episode] ELSE animes[r.anime]

LikeCount(p) ==
    /\ pc[p] = "like_count"
    /\ LET r == req[p]
           kind == LikeTransition(r.existing, r.is_like)
           old == IF r.existing = {} THEN r.is_like
                  ELSE (CHOOSE l \in r.existing : TRUE).is_like
           deltas == LikeCounterDeltas(kind, old, r.is_like)
           row == LikeTargetRow(r)
       IN  IF FieldsExist(row, deltas)
           THEN /\ IF r.episode # Null
                   THEN /\ episodes' = [episodes EXCEPT
                                            ![r.episode] = ApplyUpdate(@, deltas)]
                        /\ UNCHANGED animes
                   ELSE /\ animes' = [animes EXCEPT
                                            ![r.anime] = ApplyUpdate(@, deltas)]
                        /\ UNCHANGED episodes
                /\ req' = [req EXCEPT ![p].wrote = @ \cup {"counter"}]
                /\ resp' = [resp EXCEPT ![p] =
                        Response(IF kind = "create" THEN 201 ELSE 200, TRUE,
                                 "like " \o LikeAction(kind), LikeAction(kind))]
           ELSE \* FieldDoesNotExist, caught by the handler's except Exception
                /\ resp' = [resp EXCEPT ![p] =
                                Response(500, FALSE, "Failed to process like", "")]
                /\ UNCHANGED <<animes, episodes, req>>
    /\ pc' = [pc EXCEPT ![p] = "done"]
    /\ UNCHANGED <<comments, nreq, sessions, tracked, likes, favorites, watches, nextId,
                   favOps, viewsCounted>>

LikeStep(p) == LikeRead(p) \/ LikeWrite(p) \/ LikeCount(p) \/ Finish(p)

SeqLikeNext == \E p \in Procs : (Idle /\ LikeBegin(p, MaxSeqReq)) \/ LikeStep(p)

LikeNext == \E p \in Procs : LikeBegin(p, MaxConcReq) \/ LikeStep(p)

\* Like toggles, one request at a time.
SeqLikeSpec == Init /\ [][SeqLikeNext]_vars

\* Like toggles, requests interleaved statement by statement.
LikeSpec == Init /\ [][LikeNext]_vars

----------------------------------------------------------------------------
(* FavoriteView.post and FavoriteView.delete *)

\* Favorite.Meta.constraints: user xor session, and one row per actor and anime.
FavoriteConstraintsOK(rows) ==
    /\ \A r \in rows : (r.user # Null) # (r.anonymous_session # Null)
    /\ \A r1, r2 \in rows : r1 # r2 =>
        /\ r1.id # r2.id
        /\ ~(r1.user # Null /\ r1.user = r2.user /\ r1.anime = r2.anime)
        /\ ~(/\ r1.anonymous_session # Null
             /\ r1.anonymous_session = r2.anonymous_session
             /\ r1.anime = r2.anime)

\* Favorite.objects.filter(user=user, anime=anime), or by anonymous_session
FavoriteLookup(r) ==
    {f \in favorites :
        /\ f.anime = r.anime
        /\ IF r.user # Null THEN f.user = r.user
           ELSE f.anonymous_session = r.anonymous_session}

\* A post that inserts without looking.
FavoriteExists_Unchecked(r) == FALSE

\* favorite_exists, the check ahead of the insert
FavoriteExists(r) == FavoriteLookup(r) # {}

\* A delete that repeats post's increment.
FavoriteCounterDeltas_AlwaysAdd(op) == "total_favorites" :> 1

\* The total_favorites update that follows the insert or the delete.
FavoriteCounterDeltas(op) ==
    IF op = "fav_add" THEN "total_favorites" :> 1 ELSE "total_favorites" :> -1

ActorKey(r) == <<r.user, r.anonymous_session>>

\* history: the call of request r ended with this status
LogFavorite(r, status) ==
    [favOps EXCEPT ![ActorKey(r)] =
        Append(@, <<IF r.op = "fav_add" THEN "add" ELSE "remove", status>>)]

\* post() and delete() with the anime the identifier resolved to: the actor,
\* and the 400 of a request without one
FavoriteResolved(p, max, cred, anime, op) ==
    /\ pc[p] = "idle"
    /\ nreq < max
    /\  LET user == ResolveUser(cred)
            anon == ResolveSession(cred)
        IN  /\ req' = [req EXCEPT ![p] =
                    [op |-> op, user |-> user, anonymous_session |-> anon,
                     token |-> cred.token,
                     anime |-> anime, favorite |-> {}, wrote |-> {}]]
            /\ sessions' = TrackSession(sessions, cred)
            /\ tracked' = CountTracked(tracked, cred)
            /\ IF user = Null /\ anon = Null
               THEN /\ pc' = [pc EXCEPT ![p] = "done"]
                    /\ resp' = [resp EXCEPT ![p] = Response(400, FALSE,
                            IF op = "fav_add"
                            THEN "Cannot add favorite: no user or session provided"
                            ELSE "Cannot remove favorite: no user or session provided",
                            "")]
               ELSE /\ pc' = [pc EXCEPT ![p] =
                            IF op = "fav_add" THEN "fav_add_check" ELSE "fav_del_read"]
                    /\ UNCHANGED resp
    /\ nreq' = nreq + 1
    /\ UNCHANGED <<comments, likes, favorites, watches, animes, episodes, nextId, favOps,
                   viewsCounted>>

FavoriteBegin(p, max) ==
    \E cred \in Creds, anime \in Animes, op \in {"fav_add", "fav_remove"} :
        FavoriteResolved(p, max, cred, anime, op)

\* post: the exists() check; an existing favorite answers 200 at once
FavoriteAddCheck(p) ==
    /\ pc[p] = "fav_add_check"
    /\ IF FavoriteExists(req[p])
       THEN /\ pc' = [pc EXCEPT ![p] = "done"]
            /\ resp' = [resp EXCEPT ![p] =
                            Response(200, TRUE, "Anime already in favorites", "")]
            /\ favOps' = LogFavorite(req[p], 200)
       ELSE /\ pc' = [pc EXCEPT ![p] = "fav_add_create"]
            /\ UNCHANGED <<resp, favOps>>
    /\ UNCHANGED <<comments, req, nreq, sessions, tracked, likes, favorites, watches, animes,
                   episodes, nextId, viewsCounted>>

\* post: Favorite.objects.create(**favorite_data)
FavoriteAddCreate(p) ==
    /\ pc[p] = "fav_add_create"
    /\ LET r == req[p]
           after == favorites \cup
                       {[id |-> nextId["favorite"], user |-> r.user,
                         anonymous_session |-> r.anonymous_session,
                         anime |-> r.anime]}
       IN  IF FavoriteConstraintsOK(after)
           THEN /\ favorites' = after
                /\ nextId' = [nextId EXCEPT !["favorite"] = @ + 1]
                /\ req' = [req EXCEPT ![p].wrote = @ \cup {"record"}]
                /\ pc' = [pc EXCEPT ![p] = "fav_add_count"]
                /\ UNCHANGED <<resp, favOps>>
           ELSE \* IntegrityError, caught by the handler's except Exception
                /\ pc' = [pc EXCEPT ![p] = "done"]
                /\ resp' = [resp EXCEPT ![p] =
                                Response(500, FALSE, "Failed to add favorite", "")]
                /\ favOps' = LogFavorite(r, 500)
                /\ UNCHANGED <<favorites, nextId, req>>
    /\ UNCHANGED <<comments, nreq, sessions, tracked, likes, watches, animes, episodes,
                   viewsCounted>>

\* post and delete: Anime.objects.filter(pk=anime.pk).update(total_favorites=...)
FavoriteCount(p) ==
    /\ pc[p] \in {"fav_add_count", "fav_del_count"}
    /\ LET r == req[p]
       IN  /\ animes' = [animes EXCEPT
                            ![r.anime] = ApplyUpdate(@, FavoriteCounterDeltas(r.op))]
           /\ resp' = [resp EXCEPT ![p] =
                   IF r.op = "fav_add"
                   THEN Response(201, TRUE, "Anime added to favorites", "")
                   ELSE Response(200, TRUE, "Anime removed from favorites", "")]
           /\ favOps' = LogFavorite(r, IF r.op = "fav_add" THEN 201 ELSE 200)
    /\ req' = [req EXCEPT ![p].wrote = @ \cup {"counter"}]
    /\ pc' = [pc EXCEPT ![p] = "done"]
    /\ UNCHANGED <<comments, nreq, sessions, tracked, likes, favorites, watches,
                   episodes, nextId, viewsCounted>>

\* delete: favorite = Favorite.objects.filter(...).first(); none answers 404
FavoriteDeleteRead(p) ==
    /\ pc[p] = "fav_del_read"
    /\ LET favorite == First(FavoriteLookup(req[p]))
       IN  IF favorite = {}
           THEN /\ pc' = [pc EXCEPT ![p] = "done"]
                /\ resp' = [resp EXCEPT ![p] =
                                Response(404, FALSE, "Anime not in favorites", "")]
                /\ favOps' = LogFavorite(req[p], 404)
                /\ UNCHANGED req
           ELSE /\ pc' = [pc EXCEPT ![p] = "fav_del_delete"]
                /\ req' = [req EXCEPT ![p].favorite = favorite]
                /\ UNCHANGED <<resp, favOps>>
    /\ UNCHANGED <<comments, nreq, sessions, tracked, likes, favorites, watches, animes,
                   episodes, nextId, viewsCounted>>

\* delete: favorite.delete() deletes by primary key; no row deleted is no error
FavoriteDeleteRow(p) ==
    /\ pc[p] = "fav_del_delete"
    /\ favorites' = {f \in favorites : \A x \in req[p].favorite : f.id # x.id}
    /\ req' = [req EXCEPT ![p].wrote = @ \cup {"record"}]
    /\ pc' = [pc EXCEPT ![p] = "fav_del_count"]
    /\ UNCHANGED <<comments, resp, nreq, sessions, tracked, likes, watches, animes,
                   episodes, nextId, favOps, viewsCounted>>

FavoriteStep(p) ==
    \/ FavoriteAddCheck(p)
    \/ FavoriteAddCreate(p)
    \/ FavoriteCount(p)
    \/ FavoriteDeleteRead(p)
    \/ FavoriteDeleteRow(p)
    \/ Finish(p)

SeqFavoriteNext ==
    \E p \in Procs : (Idle /\ FavoriteBegin(p, MaxSeqReq)) \/ FavoriteStep(p)

FavoriteNext == \E p \in Procs : FavoriteBegin(p, MaxConcReq) \/ FavoriteStep(p)

\* Favorite calls, one request at a time.
SeqFavoriteSpec == Init /\ [][SeqFavoriteNext]_vars

\* Favorite calls, requests interleaved statement by statement.
FavoriteSpec == Init /\ [][FavoriteNext]_vars

----------------------------------------------------------------------------
(* EpisodeWatchView.post *)

\* Request bodies: each carries some of watch_duration_seconds, completed, country.
Payloads ==
    { <<>>,
      ("watch_duration_seconds" :> 5),
      ("watch_duration_seconds" :> 9) @@ ("completed" :> TRUE),
      ("watch_duration_seconds" :> 10) @@ ("completed" :> TRUE) @@ ("country" :> "KZ"),
      ("watch_duration_seconds" :> 8) @@ ("completed" :> TRUE),
      ("watch_duration_seconds" :> 11) }

Has(data, f) == f \in DOMAIN data

\* Python evaluates duration_seconds * 0.9 in IEEE 754 double precision: the
\* integer is converted exactly and the product is rounded to 53 significant
\* bits, ties to even.  The float 0.9 is 0x1CCCCCCCCCCCCD * 2^-53; its
\* significand is kept here in three 18-bit limbs, most significant first.
LimbBase == 2^18

PointNine == <<117964, 209715, 52429>>

\* The number of bits of n, for 0 <= n < 2^30
BitLength(n) == CHOOSE k \in 0..30 : n < 2^k /\ (k = 0 \/ n >= 2^(k - 1))

\* A rounding that always rounds an inexact product up.
RoundsUp_Ceiling(kept, rem, s) == rem > 0

\* Round to nearest, ties to even: whether the s bits dropped (rem) round the
\* bits kept up
RoundsUp(kept, rem, s) ==
    /\ s > 0
    /\ \/ 2 * rem > 2^s
       \/ 2 * rem = 2^s /\ kept % 2 = 1

\* The double n * 0.9 for 0 < n < 2^12, as the number
\* (hi * 2^(36-s) + mid * 2^(18-s) + lo) * 2^(s-53)
TimesPointNine(n) ==
    LET t0 == n * PointNine[3]
        t1 == n * PointNine[2] + t0 \div LimbBase
        p0 == t0 % LimbBase
        p1 == t1 % LimbBase
        p2 == n * PointNine[1] + t1 \div LimbBase
        s == BitLength(p2) - 17
        kept == p0 \div 2^s
        lo == IF RoundsUp(kept, p0 % 2^s, s) THEN kept + 1 ELSE kept
        carry0 == IF lo = 2^(18 - s) THEN 1 ELSE 0
        mid == p1 + carry0
        carry1 == IF mid = LimbBase THEN 1 ELSE 0
    IN  [hi |-> p2 + carry1,
         mid |-> IF carry1 = 1 THEN 0 ELSE mid,
         lo |-> IF carry0 = 1 THEN 0 ELSE lo,
         s |-> s]

\* Python's int < float, exact: d < f for an integer d below 2^14
IntLessFloat(d, f) ==
    \/ d < 0
    \/ d * 2^17 < f.hi
    \/ d * 2^17 = f.hi /\ (f.mid > 0 \/ f.lo > 0)

\* WatchHistorySerializer.validate
WatchValid(data, episode) ==
    LET completed == IF Has(data, "completed") THEN data["completed"] ELSE FALSE
    IN  Has(data, "watch_duration_seconds") =>
            /\ ~(data["watch_duration_seconds"] > episode.duration_seconds)
            /\ ~(/\ completed
                 /\ IntLessFloat(data["watch_duration_seconds"],
                                 TimesPointNine(episode.duration_seconds)))

\* A WatchHistory table without its constraints.
WatchConstraintsOK_Unconstrained(rows) == TRUE

\* WatchHistory.Meta.constraints: user xor session, one row per actor and episode.
WatchConstraintsOK(rows) ==
    /\ \A r \in rows : (r.user # Null) # (r.anonymous_session # Null)
    /\ \A r1, r2 \in rows : r1 # r2 =>
        /\ r1.id # r2.id
        /\ ~(/\ r1.user # Null /\ r1.user = r2.user
             /\ r1.anime = r2.anime /\ r1.episode = r2.episode)
        /\ ~(/\ r1.anonymous_session # Null
             /\ r1.anonymous_session = r2.anonymous_session
             /\ r1.anime = r2.anime /\ r1.episode = r2.episode)

\* WatchHistory.objects.filter(**lookup_filter)
WatchLookup(r) ==
    {w \in watches :
        /\ w.anime = r.anime /\ w.episode = r.episode
        /\ IF r.user # Null
           THEN w.user = r.user /\ w.anonymous_session = Null
           ELSE w.anonymous_session = r.anonymous_session /\ w.user = Null}

\* A handler that counts every call as a first view.
ViewExists_Unchecked(r) == FALSE

\* view_exists = WatchHistory.objects.filter(**lookup_filter).exists()
ViewExists(r) == WatchLookup(r) # {}

\* The row update_or_create stores: the defaults over the row found, or over
\* the model's field defaults when it inserts.
WatchDefaults(r, base) ==
    [base EXCEPT
        !.user = r.user,
        !.anonymous_session = r.anonymous_session,
        !.anime = r.anime,
        !.episode = r.episode,
        !.country = IF Has(r.data, "country") THEN r.data["country"] ELSE "UZ",
        !.watch_duration_seconds =
            IF Has(r.data, "watch_duration_seconds")
            THEN r.data["watch_duration_seconds"] ELSE @,
        !.completed = IF Has(r.data, "completed") THEN r.data["completed"] ELSE @]

\* watch_duration_seconds is nullable (-1 stands for NULL); completed defaults False
NewWatchRow(id) ==
    [id |-> id, user |-> Null, anonymous_session |-> Null, anime |-> Null,
     episode |-> Null, country |-> "UZ", watch_duration_seconds |-> -1,
     completed |-> FALSE]

\* post() with the anime and the episode its identifiers resolved to:
\* validation of the body, then the actor
WatchResolved(p, max, cred, anime, episode, data) ==
    /\ pc[p] = "idle"
    /\ nreq < max
    /\  LET user == ResolveUser(cred)
            anon == ResolveSession(cred)
        IN  /\ req' = [req EXCEPT ![p] =
                    [op |-> "watch", user |-> user, anonymous_session |-> anon,
                     token |-> cred.token,
                     anime |-> anime, episode |-> episode, data |-> data,
                     view_exists |-> FALSE, wrote |-> {}]]
            /\ IF ~WatchValid(data, episodes[episode])
               THEN /\ pc' = [pc EXCEPT ![p] = "done"]
                    /\ resp' = [resp EXCEPT ![p] =
                            Response(422, FALSE, "Invalid watch history data", "")]
                    /\ UNCHANGED <<sessions, tracked>>
               ELSE /\ sessions' = TrackSession(sessions, cred)
                    /\ tracked' = CountTracked(tracked, cred)
                    /\ IF user = Null /\ anon = Null
                       THEN /\ pc' = [pc EXCEPT ![p] = "done"]
                            /\ resp' = [resp EXCEPT ![p] = Response(400, FALSE,
                                "Unable to track watch history without user or session",
                                "")]
                       ELSE /\ pc' = [pc EXCEPT ![p] = "watch_check"]
                            /\ UNCHANGED resp
    /\ nreq' = nreq + 1
    /\ UNCHANGED <<comments, likes, favorites, watches, animes, episodes, nextId, favOps,
                   viewsCounted>>

\* post() is called with one of these bodies
WatchReceive(p, max, payloads) ==
    \E cred \in Creds, anime \in Animes, episode \in Episodes, data \in payloads :
        WatchResolved(p, max, cred, anime, episode, data)

WatchBegin(p, max) == WatchReceive(p, max, Payloads)

\* view_exists, read ahead of the counter updates
WatchCheck(p) ==
    /\ pc[p] = "watch_check"
    /\ LET view_exists == ViewExists(req[p])
       IN  /\ req' = [req EXCEPT ![p].view_exists = view_exists]
           /\ pc' = [pc EXCEPT ![p] =
                        IF view_exists THEN "watch_upsert_get" ELSE "watch_count_episode"]
    /\ UNCHANGED <<comments, resp, nreq, sessions, tracked, likes, favorites, watches, animes,
                   episodes, nextId, favOps, viewsCounted>>

\* Episode.objects.filter(pk=episode.pk).update(total_views=F('total_views') + 1)
WatchCountEpisode(p) ==
    /\ pc[p] = "watch_count_episode"
    /\ episodes' = [episodes EXCEPT
                        ![req[p].episode] = ApplyUpdate(@, "total_views" :> 1)]
    /\ viewsCounted' = [viewsCounted EXCEPT ![ActorKey(req[p])].episode = @ + 1]
    /\ req' = [req EXCEPT ![p].wrote = @ \cup {"counter"}]
    /\ pc' = [pc EXCEPT ![p] = "watch_count_anime"]
    /\ UNCHANGED <<comments, resp, nreq, sessions, tracked, likes, favorites, watches,
                   animes, nextId, favOps>>

\* Anime.objects.filter(pk=anime.pk).update(total_views=F('total_views') + 1)
WatchCountAnime(p) ==
    /\ pc[p] = "watch_count_anime"
    /\ animes' = [animes EXCEPT ![req[p].anime] = ApplyUpdate(@, "total_views" :> 1)]
    /\ viewsCounted' = [viewsCounted EXCEPT ![ActorKey(req[p])].anime = @ + 1]
    /\ pc' = [pc EXCEPT ![p] = "watch_upsert_get"]
    /\ UNCHANGED <<comments, req, resp, nreq, sessions, tracked, likes, favorites,
                   watches, episodes, nextId, favOps>>

WatchRecorded(created) ==
    Response(IF created THEN 201 ELSE 200, TRUE,
             "Watch history recorded successfully", "")

\* update_or_create, first half: the row is found (and locked) and updated
WatchUpsertGet(p) ==
    /\ pc[p] = "watch_upsert_get"
    /\ LET r == req[p]
           found == WatchLookup(r)
       IN  IF found # {}
           THEN /\ watches' = (watches \ found) \cup
                                {WatchDefaults(r, w) : w \in First(found)}
                /\ req' = [req EXCEPT ![p].wrote = @ \cup {"record"}]
                /\ resp' = [resp EXCEPT ![p] = WatchRecorded(FALSE)]
                /\ pc' = [pc EXCEPT ![p] = "done"]
           ELSE /\ pc' = [pc EXCEPT ![p] = "watch_upsert_create"]
                /\ UNCHANGED <<watches, req, resp>>
    /\ UNCHANGED <<comments, nreq, sessions, tracked, likes, favorites, animes, episodes,
                   nextId, favOps, viewsCounted>>

\* update_or_create, second half: the insert; on IntegrityError the row the
\* concurrent request inserted is fetched and updated instead
WatchUpsertCreate(p) ==
    /\ pc[p] = "watch_upsert_create"
    /\ LET r == req[p]
           row == WatchDefaults(r, NewWatchRow(nextId["watch"]))
       IN  IF WatchConstraintsOK(watches \cup {row})
           THEN /\ watches' = watches \cup {row}
                /\ nextId' = [nextId EXCEPT !["watch"] = @ + 1]
                /\ resp' = [resp EXCEPT ![p] = WatchRecorded(TRUE)]
           ELSE /\ watches' = (watches \ WatchLookup(r)) \cup
                                {WatchDefaults(r, w) : w \in First(WatchLookup(r))}
                /\ resp' = [resp EXCEPT ![p] = WatchRecorded(FALSE)]
                /\ UNCHANGED nextId
    /\ req' = [req EXCEPT ![p].wrote = @ \cup {"record"}]
    /\ pc' = [pc EXCEPT ![p] = "done"]
    /\ UNCHANGED <<comments, nreq, sessions, tracked, likes, favorites, animes, episodes,
                   favOps, viewsCounted>>

WatchStep(p) ==
    \/ WatchCheck(p)
    \/ WatchCountEpisode(p)
    \/ WatchCountAnime(p)
    \/ WatchUpsertGet(p)
    \/ WatchUpsertCreate(p)
    \/ Finish(p)

SeqWatchNext == \E p \in Procs : (Idle /\ WatchBegin(p, MaxSeqReq)) \/ WatchStep(p)

WatchNext == \E p \in Procs : WatchBegin(p, MaxConcReq) \/ WatchStep(p)

\* recordWatch calls, one request at a time.
SeqWatchSpec == Init /\ [][SeqWatchNext]_vars

\* recordWatch calls, requests interleaved statement by statement.
WatchSpec == Init /\ [][WatchNext]_vars

\* Bodies with every duration up to one past the longest episode, completed or not
DurationPayloads ==
    {("watch_duration_seconds" :> d) @@ ("completed" :> c) :
        d \in 0..(MaxDuration + 1), c \in BOOLEAN}

\* The stored episode has any duration_seconds from 1 to MaxDuration.
ValidateInit ==
    /\ pc = [p \in Procs |-> "idle"]
    /\ req = [p \in Procs |-> NoReq]
    /\ resp = [p \in Procs |-> NoResp]
    /\ nreq = 0
    /\ sessions = {}
    /\ likes = {}
    /\ favorites = {}
    /\ watches = {}
    /\ comments = {}
    /\ animes = [a \in Animes |-> AnimeRow0]
    /\ \E D \in 1..MaxDuration :
          episodes = [e \in AllEpisodes |->
                        [EpisodeRow0 EXCEPT !.duration_seconds = D]]
    /\ nextId = [t \in {"like", "favorite", "watch", "comment"} |-> 1]
    /\ favOps = [k \in ActorKeys |-> <<>>]
    /\ viewsCounted = [k \in ActorKeys |-> [episode |-> 0, anime |-> 0]]
    /\ tracked = [s \in Tokens |-> 0]

\* The first call only: it is followed to its response and no call follows it.
ValidateNext ==
    \E p \in Procs :
        \/ Idle /\ WatchReceive(p, MaxSeqReq, DurationPayloads)
        \/ WatchCheck(p)
        \/ WatchCountEpisode(p)
        \/ WatchCountAnime(p)
        \/ WatchUpsertGet(p)
        \/ WatchUpsertCreate(p)

\* One recordWatch call with any duration against an episode of any duration.
ValidateSpec == ValidateInit /\ [][ValidateNext]_vars

----------------------------------------------------------------------------
(* CommentListCreateView.post, CommentDetailView.put and delete *)

\* str.strip() on the texts a request may carry: " " is empty once stripped
Strip(text) == IF text = " " THEN "" ELSE text

\* Primary keys a request may name as parent or as the comment addressed
CommentIds == 1..MaxComments

\* Comment.parent is nullable: the parent of a comment that is no reply
NoParent == 0

\* Request bodies of post: Null and NoParent stand for a key the body does
\* not carry
CommentPayloads ==
    [comment : {"hi", "", " "}, guest_name : {Null, "Bob"},
     parent : CommentIds \cup {NoParent}]

\* put is partial: the value of a key the body does not carry
KeepParent == -1

\* Request bodies of put: comment and parent are writable fields of
\* CommentSerializer; the body may name a parent, null, or carry no parent
EditPayloads ==
    [comment : {"edited", ""},
     parent : CommentIds \cup {NoParent, KeepParent}]

\* The bodies of put that carry a text and no parent key
TextEditPayloads == {data \in EditPayloads : data.parent = KeepParent}

CommentById(id) == {c \in comments : c.id = id}

\* A validate that does not look at the parent's target.
ParentOnTarget_Unchecked(parent, anime, episode) == TRUE

\* CommentSerializer.validate, the parent checks: each of anime and episode
\* that the context carries must be the parent's
ParentOnTarget(parent, anime, episode) ==
    /\ anime # Null => parent.anime = anime
    /\ episode # Null => parent.episode = episode

\* CommentSerializer.is_valid: the parent's primary key must be a stored
\* comment's (PrimaryKeyRelatedField), then validate()
CommentValid(data, anime, episode) ==
    /\ Strip(data.comment) # ""
    /\ data.parent # NoParent =>
        /\ CommentById(data.parent) # {}
        /\ \A parent \in CommentById(data.parent) :
              ParentOnTarget(parent, anime, episode)

\* put: is_valid of the partial serializer, whose context carries neither anime
\* nor episode: the text, and a stored comment behind the parent's primary key
EditValid(data) ==
    /\ Strip(data.comment) # ""
    /\ data.parent \notin {NoParent, KeepParent} => CommentById(data.parent) # {}

\* A permission check that lets every actor through.
HasPermission_Anyone(comment, user, anon_session) == TRUE

\* CommentDetailView.check_permission
HasPermission(comment, user, anon_session) ==
    \/ user # Null /\ comment.user = user
    \/ anon_session # Null /\ comment.anonymous_session = anon_session

\* The rows comment.delete() removes: the row and, by on_delete=CASCADE on
\* parent, every reply below it
RECURSIVE Cascade(_, _)
Cascade(ids, rows) ==
    LET below == {c.id : c \in {r \in rows : r.parent \in ids}}
    IN  IF below \subseteq ids THEN ids ELSE Cascade(ids \cup below, rows)

\* A post that approves every comment.
Approved_Always(user) == TRUE

\* post: is_approved is True for a user's comment, False for a session's
Approved(user) == user # Null

\* post: guest_name of a session's comment, 'Anonymous' when the body has none
GuestName(user, data) ==
    IF user # Null THEN Null
    ELSE IF data.guest_name = Null THEN "Anonymous" ELSE data.guest_name

\* What a comment request carries: as Creds, and a second user may be the one
\* authenticated
CommentCreds == Creds \cup [user : {"u2"}, token : {Null}]

\* post() with the anime and the episode its identifiers resolved to:
\* validation of the body, then the actor
CommentResolved(p, max, cred, anime, episode, data) ==
    /\ pc[p] = "idle"
    /\ nreq < max
    /\ LET user == ResolveUser(cred)
           anon == ResolveSession(cred)
       IN  /\ req' = [req EXCEPT ![p] =
                   [op |-> "comment", user |-> user, anonymous_session |-> anon,
                    token |-> cred.token, anime |-> anime, episode |-> episode,
                    data |-> data, comment |-> {}, wrote |-> {}]]
           /\ IF ~CommentValid(data, anime, episode)
              THEN /\ pc' = [pc EXCEPT ![p] = "done"]
                   /\ resp' = [resp EXCEPT ![p] =
                           Response(422, FALSE, "Invalid comment data", "")]
                   /\ UNCHANGED <<sessions, tracked>>
              ELSE /\ sessions' = TrackSession(sessions, cred)
                   /\ tracked' = CountTracked(tracked, cred)
                   /\ IF user = Null /\ anon = Null
                      THEN /\ pc' = [pc EXCEPT ![p] = "done"]
                           /\ resp' = [resp EXCEPT ![p] = Response(400, FALSE,
                               "Unable to post comment without user or session",
                               "")]
                      ELSE /\ pc' = [pc EXCEPT ![p] = "comment_create"]
                           /\ UNCHANGED resp
    /\ nreq' = nreq + 1
    /\ UNCHANGED <<comments, likes, favorites, watches, animes, episodes, nextId,
                   favOps, viewsCounted>>

\* put and delete are called, put with one of these bodies: the comment
\* addressed, the actor, the permission, the validation of put's body
CommentAddressed(p, max, edits) ==
    /\ pc[p] = "idle"
    /\ nreq < max
    /\ \E cred \in CommentCreds, id \in CommentIds,
          op \in {"comment_edit", "comment_delete"}, data \in edits :
        LET user == ResolveUser(cred)
            anon == ResolveSession(cred)
            comment == CommentById(id)
            allowed == \E c \in comment : HasPermission(c, user, anon)
        IN  /\ req' = [req EXCEPT ![p] =
                    [op |-> op, user |-> user, anonymous_session |-> anon,
                     token |-> cred.token, id |-> id,
                     data |-> IF op = "comment_edit" THEN data
                              ELSE [comment |-> ""],
                     comment |-> comment, wrote |-> {}]]
            /\ IF comment = {}
               THEN /\ pc' = [pc EXCEPT ![p] = "done"]
                    /\ resp' = [resp EXCEPT ![p] =
                            Response(404, FALSE, "Comment not found", "")]
                    /\ UNCHANGED <<sessions, tracked>>
               ELSE /\ sessions' = TrackSession(sessions, cred)
                    /\ tracked' = CountTracked(tracked, cred)
                    /\ IF ~allowed
                       THEN /\ pc' = [pc EXCEPT ![p] = "done"]
                            /\ resp' = [resp EXCEPT ![p] = Response(403, FALSE,
                                IF op = "comment_edit"
                                THEN "You don't have permission to edit this comment"
                                ELSE "You don't have permission to delete this comment",
                                "")]
                       ELSE IF op = "comment_edit" /\ ~EditValid(data)
                       THEN /\ pc' = [pc EXCEPT ![p] = "done"]
                            /\ resp' = [resp EXCEPT ![p] =
                                Response(422, FALSE, "Invalid comment data", "")]
                       ELSE /\ pc' = [pc EXCEPT ![p] =
                                    IF op = "comment_edit" THEN "comment_save"
                                    ELSE "comment_del_count"]
                            /\ UNCHANGED resp
    /\ nreq' = nreq + 1
    /\ UNCHANGED <<comments, likes, favorites, watches, animes, episodes, nextId,
                   favOps, viewsCounted>>

\* post, put and delete are called
CommentReceive(p, max, edits) ==
    \/ \E cred \in CommentCreds, anime \in Animes, episode \in AllEpisodes \cup {Null},
          data \in CommentPayloads :
            CommentResolved(p, max, cred, anime, episode, data)
    \/ CommentAddressed(p, max, edits)

CommentBegin(p, max) == CommentReceive(p, max, TextEditPayloads)

\* post: Comment.objects.create(**comment_data); a parent deleted since the
\* validation fails the foreign key
CommentCreate(p) ==
    /\ pc[p] = "comment_create"
    /\ LET r == req[p]
           row == [id |-> nextId["comment"], user |-> r.user,
                   anonymous_session |-> r.anonymous_session,
                   anime |-> IF r.episode # Null THEN Null ELSE r.anime,
                   episode |-> r.episode, parent |-> r.data.parent,
                   comment |-> r.data.comment,
                   guest_name |-> GuestName(r.user, r.data),
                   is_approved |-> Approved(r.user)]
       IN  IF r.data.parent = NoParent \/ CommentById(r.data.parent) # {}
           THEN /\ comments' = comments \cup {row}
                /\ nextId' = [nextId EXCEPT !["comment"] = @ + 1]
                /\ req' = [req EXCEPT ![p].comment = {row},
                                      ![p].wrote = @ \cup {"record"}]
                /\ pc' = [pc EXCEPT ![p] = "comment_count"]
                /\ UNCHANGED resp
           ELSE \* IntegrityError, caught by the handler's except Exception
                /\ pc' = [pc EXCEPT ![p] = "done"]
                /\ resp' = [resp EXCEPT ![p] =
                                Response(500, FALSE, "Failed to post comment", "")]
                /\ UNCHANGED <<comments, nextId, req>>
    /\ UNCHANGED <<nreq, sessions, tracked, likes, favorites, watches, animes,
                   episodes, favOps, viewsCounted>>

\* An update without its pk filter: it reaches every row of the table.
CountComment_Unfiltered(target, delta) ==
    /\ IF target.episode # Null
       THEN /\ episodes' = [e \in DOMAIN episodes |->
                                ApplyUpdate(episodes[e], "total_comments" :> delta)]
            /\ UNCHANGED animes
       ELSE /\ animes' = [a \in DOMAIN animes |->
                                ApplyUpdate(animes[a], "total_comments" :> delta)]
            /\ UNCHANGED episodes

\* The total_comments update on the episode, or on the anime when the comment
\* has no episode
CountComment(target, delta) ==
    /\ IF target.episode # Null
       THEN /\ episodes' = [episodes EXCEPT ![target.episode] =
                                ApplyUpdate(@, "total_comments" :> delta)]
            /\ UNCHANGED animes
       ELSE /\ animes' = [animes EXCEPT ![target.anime] =
                                ApplyUpdate(@, "total_comments" :> delta)]
            /\ UNCHANGED episodes

\* post: total_comments = F('total_comments') + 1, then the 201 response
CommentCount(p) ==
    /\ pc[p] = "comment_count"
    /\ CountComment(req[p], 1)
    /\ req' = [req EXCEPT ![p].wrote = @ \cup {"counter"}]
    /\ resp' = [resp EXCEPT ![p] =
            Response(201, TRUE,
                     IF \A c \in req[p].comment : c.is_approved
                     THEN "Comment posted successfully"
                     ELSE "Comment submitted for approval", "")]
    /\ pc' = [pc EXCEPT ![p] = "done"]
    /\ UNCHANGED <<comments, nreq, sessions, tracked, likes, favorites, watches,
                   nextId, favOps, viewsCounted>>

\* put: serializer.save() saves the instance read at the start: it updates the
\* row with that primary key and inserts it when no row was updated
CommentSave(p) ==
    /\ pc[p] = "comment_save"
    /\ LET r == req[p]
           saved == {[c EXCEPT !.comment = r.data.comment,
                               !.parent = IF r.data.parent = KeepParent
                                          THEN @ ELSE r.data.parent] :
                        c \in r.comment}
       IN  IF \A c \in saved : c.parent = NoParent \/ CommentById(c.parent) # {}
           THEN /\ comments' = {c \in comments : c.id # r.id} \cup saved
                /\ req' = [req EXCEPT ![p].wrote = @ \cup {"record"}]
                /\ resp' = [resp EXCEPT ![p] =
                        Response(200, TRUE, "Comment updated successfully", "")]
           ELSE \* IntegrityError, caught by the handler's except Exception
                /\ resp' = [resp EXCEPT ![p] =
                        Response(500, FALSE, "Failed to update comment", "")]
                /\ UNCHANGED <<comments, req>>
    /\ pc' = [pc EXCEPT ![p] = "done"]
    /\ UNCHANGED <<nreq, sessions, tracked, likes, favorites, watches, animes,
                   episodes, nextId, favOps, viewsCounted>>

\* delete: total_comments = F('total_comments') - 1 on the comment's target
CommentUncount(p) ==
    /\ pc[p] = "comment_del_count"
    /\ CountComment(CHOOSE c \in req[p].comment : TRUE, -1)
    /\ req' = [req EXCEPT ![p].wrote = @ \cup {"counter"}]
    /\ pc' = [pc EXCEPT ![p] = "comment_del_row"]
    /\ UNCHANGED <<comments, resp, nreq, sessions, tracked, likes, favorites,
                   watches, nextId, favOps, viewsCounted>>

\* delete: comment.delete(), then the 200 response
CommentDeleteRow(p) ==
    /\ pc[p] = "comment_del_row"
    /\ comments' = {c \in comments : c.id \notin Cascade({req[p].id}, comments)}
    /\ req' = [req EXCEPT ![p].wrote = @ \cup {"record"}]
    /\ resp' = [resp EXCEPT ![p] =
                    Response(200, TRUE, "Comment deleted successfully", "")]
    /\ pc' = [pc EXCEPT ![p] = "done"]
    /\ UNCHANGED <<nreq, sessions, tracked, likes, favorites, watches, animes,
                   episodes, nextId, favOps, viewsCounted>>

CommentStep(p) ==
    \/ CommentCreate(p)
    \/ CommentCount(p)
    \/ CommentSave(p)
    \/ CommentUncount(p)
    \/ CommentDeleteRow(p)
    \/ Finish(p)

SeqCommentNext ==
    \E p \in Procs : (Idle /\ CommentBegin(p, MaxCommentReq)) \/ CommentStep(p)

\* Comment calls, one request at a time.
SeqCommentSpec == Init /\ [][SeqCommentNext]_vars

SeqEditNext ==
    \E p \in Procs :
        \/ Idle /\ CommentReceive(p, MaxCommentReq, EditPayloads)
        \/ CommentStep(p)

\* Comment calls, one request at a time, where put may carry a parent as well.
SeqEditSpec == Init /\ [][SeqEditNext]_vars

----------------------------------------------------------------------------
(* AnimeListView.list: track_anonymous_session, statement by statement *)

\* AnonymousSession.Meta.constraints: session_token is unique, so a row with
\* this token can be inserted only when no row holds the token
SessionUniqueOK(rows, token) == \A s \in rows : s.session_token # token

\* A save that writes nothing.
TouchSession_Unsaved(rows, token) == rows

\* anon_session.total_visits = F('total_visits') + 1;
\* anon_session.save(update_fields=[...]): one UPDATE, the sum made by the database
TouchSession(rows, token) ==
    {IF s.session_token = token THEN [s EXCEPT !.total_visits = @ + 1] ELSE s :
        s \in rows}

AnimeListRetrieved == Response(200, TRUE, "Anime list retrieved", "")

\* list() is called; track_anonymous_session returns None at once for an
\* authenticated request and for a request without X-Session-Token
TrackBegin(p, max) ==
    /\ pc[p] = "idle"
    /\ nreq < max
    /\ \E cred \in Creds :
        /\ req' = [req EXCEPT ![p] =
                [op |-> "track", user |-> ResolveUser(cred),
                 anonymous_session |-> Null, token |-> cred.token,
                 created |-> FALSE, integrity_error |-> FALSE, wrote |-> {}]]
        /\ IF ResolveSession(cred) = Null
           THEN /\ pc' = [pc EXCEPT ![p] = "done"]
                /\ resp' = [resp EXCEPT ![p] = AnimeListRetrieved]
           ELSE /\ pc' = [pc EXCEPT ![p] = "track_get"]
                /\ UNCHANGED resp
    /\ nreq' = nreq + 1
    /\ UNCHANGED <<comments, sessions, tracked, likes, favorites, watches, animes, episodes,
                   nextId, favOps, viewsCounted>>

\* get_or_create, first half: the SELECT by session_token
TrackGet(p) ==
    /\ pc[p] = "track_get"
    /\ pc' = [pc EXCEPT ![p] =
                IF \E s \in sessions : s.session_token = req[p].token
                THEN "track_update" ELSE "track_create"]
    /\ UNCHANGED <<comments, req, resp, nreq, sessions, tracked, likes, favorites, watches,
                   animes, episodes, nextId, favOps, viewsCounted>>

\* get_or_create, second half: the INSERT with total_visits 1; on IntegrityError
\* the row the concurrent request inserted is fetched and created is False
TrackCreate(p) ==
    /\ pc[p] = "track_create"
    /\ LET token == req[p].token
       IN  IF SessionUniqueOK(sessions, token)
           THEN /\ sessions' = sessions \cup
                                {[session_token |-> token, total_visits |-> 1]}
                /\ tracked' = [tracked EXCEPT ![token] = @ + 1]
                /\ req' = [req EXCEPT ![p].anonymous_session = token,
                                      ![p].created = TRUE,
                                      ![p].wrote = @ \cup {"record"}]
                /\ resp' = [resp EXCEPT ![p] = AnimeListRetrieved]
                /\ pc' = [pc EXCEPT ![p] = "done"]
           ELSE /\ pc' = [pc EXCEPT ![p] = "track_update"]
                /\ req' = [req EXCEPT ![p].integrity_error = TRUE]
                /\ UNCHANGED <<sessions, tracked, resp>>
    /\ UNCHANGED <<comments, nreq, likes, favorites, watches, animes, episodes, nextId,
                   favOps, viewsCounted>>

\* if not created: the total_visits update, then refresh_from_db and return
TrackUpdate(p) ==
    /\ pc[p] = "track_update"
    /\ sessions' = TouchSession(sessions, req[p].token)
    /\ tracked' = [tracked EXCEPT ![req[p].token] = @ + 1]
    /\ req' = [req EXCEPT ![p].anonymous_session = req[p].token,
                          ![p].wrote = @ \cup {"record"}]
    /\ resp' = [resp EXCEPT ![p] = AnimeListRetrieved]
    /\ pc' = [pc EXCEPT ![p] = "done"]
    /\ UNCHANGED <<comments, nreq, likes, favorites, watches, animes, episodes, nextId,
                   favOps, viewsCounted>>

TrackStep(p) == TrackGet(p) \/ TrackCreate(p) \/ TrackUpdate(p) \/ Finish(p)

TrackNext == \E p \in Procs : TrackBegin(p, MaxTrackReq) \/ TrackStep(p)

\* Listing requests, interleaved statement by statement.
TrackSpec == Init /\ [][TrackNext]_vars

----------------------------------------------------------------------------
(* The whole ledger *)

Begin(p) ==
    \/ LikeBegin(p, MaxConcReq)
    \/ FavoriteBegin(p, MaxConcReq)
    \/ WatchBegin(p, MaxConcReq)

Next ==
    \E p \in Procs :
        \/ Begin(p)
        \/ LikeRead(p) \/ LikeWrite(p) \/ LikeCount(p)
        \/ FavoriteAddCheck(p) \/ FavoriteAddCreate(p) \/ FavoriteCount(p)
        \/ FavoriteDeleteRead(p) \/ FavoriteDeleteRow(p)
        \/ WatchCheck(p) \/ WatchCountEpisode(p) \/ WatchCountAnime(p)
        \/ WatchUpsertGet(p) \/ WatchUpsertCreate(p)
        \/ Finish(p)

\* Every handler, requests interleaved statement by statement.
Spec == Init /\ [][Next]_vars

\* Two callers at most, on any of the handlers, interleaved statement by
\* statement.
RaceNext ==
    \E p \in Procs :
        \/ LikeBegin(p, MaxRaceReq)
        \/ FavoriteBegin(p, MaxRaceReq)
        \/ WatchBegin(p, MaxRaceReq)
        \/ LikeStep(p)
        \/ FavoriteStep(p)
        \/ WatchStep(p)

RaceSpec == Init /\ [][RaceNext]_vars

\* Every handler that needs an actor, one request at a time.
SeqAllNext ==
    \E p \in Procs :
        \/ Idle /\ LikeBegin(p, MaxAllReq)
        \/ Idle /\ FavoriteBegin(p, MaxAllReq)
        \/ Idle /\ WatchBegin(p, MaxAllReq)
        \/ Idle /\ CommentBegin(p, MaxAllReq)
        \/ LikeRead(p) \/ LikeWrite(p) \/ LikeCount(p)
        \/ FavoriteAddCheck(p) \/ FavoriteAddCreate(p) \/ FavoriteCount(p)
        \/ FavoriteDeleteRead(p) \/ FavoriteDeleteRow(p)
        \/ WatchCheck(p) \/ WatchCountEpisode(p) \/ WatchCountAnime(p)
        \/ WatchUpsertGet(p) \/ WatchUpsertCreate(p)
        \/ CommentCreate(p) \/ CommentCount(p) \/ CommentSave(p)
        \/ CommentUncount(p) \/ CommentDeleteRow(p)
        \/ Finish(p)

SeqAllSpec == Init /\ [][SeqAllNext]_vars

----------------------------------------------------------------------------
(* Requests addressed by identifier: like, favorite, recordWatch and comment
   post resolve their target before anything else *)

\* The handler returns before get_user_or_session: not_found_response, or the
\* framework's answer to the uncaught ValueError
Refused(p, max, op, cred, anime_identifier, episode_identifier, target) ==
    /\ pc[p] = "idle"
    /\ nreq < max
    /\ req' = [req EXCEPT ![p] =
            [op |-> op, user |-> ResolveUser(cred), anonymous_session |-> Null,
             token |-> cred.token, anime_identifier |-> anime_identifier,
             episode_identifier |-> episode_identifier]]
    /\ pc' = [pc EXCEPT ![p] = "done"]
    /\ resp' = [resp EXCEPT ![p] = Response(target.status, FALSE, target.message, "")]
    /\ nreq' = nreq + 1
    /\ UNCHANGED <<sessions, likes, favorites, watches, comments, animes, episodes,
                   nextId, favOps, viewsCounted, tracked>>

\* LikeToggleView.post(request, anime_identifier, episode_identifier=None)
LikePost(p, max) ==
    \E cred \in Creds, anime_identifier \in AnimeIdentifiers,
       episode_identifier \in EpisodeIdentifiers \cup {Null}, is_like \in BOOLEAN :
        LET target == ResolveTarget(anime_identifier, episode_identifier)
        IN  IF target.status = 200
            THEN LikeResolved(p, max, cred, target.anime, target.episode, is_like)
            ELSE Refused(p, max, "like", cred, anime_identifier, episode_identifier,
                         target)

\* FavoriteView.post and FavoriteView.delete(request, anime_identifier)
FavoriteCall(p, max) ==
    \E cred \in Creds, anime_identifier \in AnimeIdentifiers,
       op \in {"fav_add", "fav_remove"} :
        LET target == ResolveTarget(anime_identifier, Null)
        IN  IF target.status = 200
            THEN FavoriteResolved(p, max, cred, target.anime, op)
            ELSE Refused(p, max, op, cred, anime_identifier, Null, target)

\* EpisodeWatchView.post(request, anime_identifier, episode_identifier)
WatchPost(p, max) ==
    \E cred \in Creds, anime_identifier \in AnimeIdentifiers,
       episode_identifier \in EpisodeIdentifiers, data \in Payloads :
        LET target == ResolveTarget(anime_identifier, episode_identifier)
        IN  IF target.status = 200
            THEN WatchResolved(p, max, cred, target.anime, target.episode, data)
            ELSE Refused(p, max, "watch", cred, anime_identifier, episode_identifier,
                         target)

\* CommentListCreateView.post(request, anime_identifier, episode_identifier=None)
CommentPost(p, max) ==
    \E cred \in CommentCreds, anime_identifier \in AnimeIdentifiers,
       episode_identifier \in EpisodeIdentifiers \cup {Null}, data \in CommentPayloads :
        LET target == ResolveTarget(anime_identifier, episode_identifier)
        IN  IF target.status = 200
            THEN CommentResolved(p, max, cred, target.anime, target.episode, data)
            ELSE Refused(p, max, "comment", cred, anime_identifier, episode_identifier,
                         target)

\* One addressed request at a time, over every handler
SeqAddressedNext ==
    \E p \in Procs :
        \/ Idle /\ LikePost(p, MaxAllReq)
        \/ Idle /\ FavoriteCall(p, MaxAllReq)
        \/ Idle /\ WatchPost(p, MaxAllReq)
        \/ Idle /\ CommentPost(p, MaxAllReq)
        \/ LikeRead(p) \/ LikeWrite(p) \/ LikeCount(p)
        \/ FavoriteAddCheck(p) \/ FavoriteAddCreate(p) \/ FavoriteCount(p)
        \/ FavoriteDeleteRead(p) \/ FavoriteDeleteRow(p)
        \/ WatchCheck(p) \/ WatchCountEpisode(p) \/ WatchCountAnime(p)
        \/ WatchUpsertGet(p) \/ WatchUpsertCreate(p)
        \/ CommentCreate(p) \/ CommentCount(p)
        \/ Finish(p)

SeqAddressedSpec == Init /\ [][SeqAddressedNext]_vars

----------------------------------------------------------------------------
(* EpisodeDetailView.get and premium access *)

\* check_premium_access(user, episode)
PremiumAccess(user, episode) ==
    IF /\ ~EpisodeTable[episode].is_premium_only
       /\ ~AnimeTable[EpisodeTable[episode].anime].is_premium_only
    THEN TRUE
    ELSE IF user = Null THEN FALSE
    ELSE IF ~UserTable[user].is_premium THEN FALSE
    ELSE IF /\ UserTable[user].premium_expires_at # NoExpiry
            /\ UserTable[user].premium_expires_at < Now
    THEN FALSE
    ELSE TRUE

\* get_object(): Episode.objects.filter(**anime_filter, **episode_filter,
\* anime__is_published=True, is_published=True).first().  Both filters are
\* built, with int(), before the query; get() answers the ValueError 500.
GetObject(anime_identifier, episode_identifier) ==
    IF RaisesValueError(anime_identifier) \/ RaisesValueError(episode_identifier)
    THEN Unresolved(500, "Failed to retrieve episode details")
    ELSE LET found ==
                {e \in DOMAIN EpisodeTable :
                    /\ IdentifierMatches(anime_identifier,
                                         AnimeTable[EpisodeTable[e].anime])
                    /\ IdentifierMatches(episode_identifier, EpisodeTable[e])
                    /\ AnimeTable[EpisodeTable[e].anime].is_published
                    /\ EpisodeTable[e].is_published}
         IN  IF found = {}
             THEN Unresolved(404, "Episode not found")
             ELSE LET obj == CHOOSE e \in found : TRUE
                  IN  [status |-> 200, message |-> "",
                       anime |-> EpisodeTable[obj].anime, episode |-> obj]

\* The requests of the viewers: a user without premium, a user whose premium
\* runs, a user whose premium has ended, a session, and neither
ViewerCreds ==
    [user : {"u1", "u3", "u4"}, token : {Null}] \cup
    [user : {Null}, token : Tokens \cup {Null}]

ViewAnimeIdentifiers == {"1", "3"}

ViewEpisodeIdentifiers == {"1", "4", "5", "U+00B2"}

\* The episodes recordWatch is called on: free, of a premium-only anime,
\* premium-only
ViewEpisodes == {"E1", "E4", "E5"}

ViewPayloads ==
    { <<>>,
      ("watch_duration_seconds" :> 9) @@ ("completed" :> TRUE),
      ("watch_duration_seconds" :> 11) }

\* get() with the episode get_object returned: get_user_or_session, then the
\* premium check
DetailResolved(p, max, cred, episode) ==
    /\ pc[p] = "idle"
    /\ nreq < max
    /\ req' = [req EXCEPT ![p] =
            [op |-> "detail", user |-> ResolveUser(cred),
             anonymous_session |-> ResolveSession(cred), token |-> cred.token,
             anime |-> EpisodeTable[episode].anime, episode |-> episode,
             view_exists |-> FALSE, wrote |-> {}]]
    /\ sessions' = TrackSession(sessions, cred)
    /\ tracked' = CountTracked(tracked, cred)
    /\ IF ~PremiumAccess(ResolveUser(cred), episode)
       THEN /\ pc' = [pc EXCEPT ![p] = "done"]
            /\ resp' = [resp EXCEPT ![p] = Response(403, FALSE,
                    "This episode requires a premium subscription", "")]
       ELSE /\ pc' = [pc EXCEPT ![p] = "detail_check"]
            /\ UNCHANGED resp
    /\ nreq' = nreq + 1
    /\ UNCHANGED <<comments, likes, favorites, watches, animes, episodes, nextId, favOps,
                   viewsCounted>>

\* EpisodeDetailView.get(request, anime_identifier, episode_identifier)
DetailGet(p, max) ==
    \E cred \in ViewerCreds, anime_identifier \in ViewAnimeIdentifiers,
       episode_identifier \in ViewEpisodeIdentifiers :
        LET target == GetObject(anime_identifier, episode_identifier)
        IN  IF target.status = 200
            THEN DetailResolved(p, max, cred, target.episode)
            ELSE Refused(p, max, "detail", cred, anime_identifier, episode_identifier,
                         target)

DetailRetrieved == Response(200, TRUE, "Episode details retrieved", "")

\* view_exists: the filter runs for a user or a session and stays False for
\* a request with neither
DetailCheck(p) ==
    /\ pc[p] = "detail_check"
    /\ LET r == req[p]
           view_exists ==
                IF r.user # Null \/ r.anonymous_session # Null
                THEN WatchLookup(r) # {} ELSE FALSE
       IN  /\ req' = [req EXCEPT ![p].view_exists = view_exists]
           /\ IF view_exists
              THEN /\ pc' = [pc EXCEPT ![p] = "done"]
                   /\ resp' = [resp EXCEPT ![p] = DetailRetrieved]
              ELSE /\ pc' = [pc EXCEPT ![p] = "detail_count_episode"]
                   /\ UNCHANGED resp
    /\ UNCHANGED <<comments, nreq, sessions, tracked, likes, favorites, watches, animes,
                   episodes, nextId, favOps, viewsCounted>>

\* Episode.objects.filter(pk=instance.pk).update(total_views=F('total_views') + 1)
DetailCountEpisode(p) ==
    /\ pc[p] = "detail_count_episode"
    /\ episodes' = [episodes EXCEPT
                        ![req[p].episode] = ApplyUpdate(@, "total_views" :> 1)]
    /\ req' = [req EXCEPT ![p].wrote = @ \cup {"counter"}]
    /\ pc' = [pc EXCEPT ![p] = "detail_count_anime"]
    /\ UNCHANGED <<comments, resp, nreq, sessions, tracked, likes, favorites, watches,
                   animes, nextId, favOps, viewsCounted>>

\* Anime.objects.filter(pk=instance.anime.pk).update(total_views=F('total_views') + 1)
DetailCountAnime(p) ==
    /\ pc[p] = "detail_count_anime"
    /\ animes' = [animes EXCEPT ![req[p].anime] = ApplyUpdate(@, "total_views" :> 1)]
    /\ pc' = [pc EXCEPT ![p] = "detail_create"]
    /\ UNCHANGED <<comments, req, resp, nreq, sessions, tracked, likes, favorites,
                   watches, episodes, nextId, favOps, viewsCounted>>

\* WatchHistory.objects.create(**watch_history_data) inside try/except
\* Exception: a row the constraints refuse is logged and dropped, and the
\* response is the same
DetailCreate(p) ==
    /\ pc[p] = "detail_create"
    /\ LET r == req[p]
           row == [NewWatchRow(nextId["watch"]) EXCEPT
                        !.user = r.user,
                        !.anonymous_session = r.anonymous_session,
                        !.anime = r.anime,
                        !.episode = r.episode]
       IN  IF WatchConstraintsOK(watches \cup {row})
           THEN /\ watches' = watches \cup {row}
                /\ nextId' = [nextId EXCEPT !["watch"] = @ + 1]
                /\ req' = [req EXCEPT ![p].wrote = @ \cup {"record"}]
           ELSE UNCHANGED <<watches, nextId, req>>
    /\ resp' = [resp EXCEPT ![p] = DetailRetrieved]
    /\ pc' = [pc EXCEPT ![p] = "done"]
    /\ UNCHANGED <<comments, nreq, sessions, tracked, likes, favorites, animes, episodes,
                   favOps, viewsCounted>>

\* recordWatch on one of the episodes in view
WatchView(p, max) ==
    \E cred \in ViewerCreds, episode \in ViewEpisodes, data \in ViewPayloads :
        WatchResolved(p, max, cred, EpisodeTable[episode].anime, episode, data)

\* One request at a time: episode detail views and recordWatch calls
SeqViewNext ==
    \E p \in Procs :
        \/ Idle /\ DetailGet(p, MaxViewReq)
        \/ Idle /\ WatchView(p, MaxViewReq)
        \/ DetailCheck(p) \/ DetailCountEpisode(p) \/ DetailCountAnime(p)
        \/ DetailCreate(p)
        \/ WatchCheck(p) \/ WatchCountEpisode(p) \/ WatchCountAnime(p)
        \/ WatchUpsertGet(p) \/ WatchUpsertCreate(p)
        \/ Finish(p)

SeqViewSpec == Init /\ [][SeqViewNext]_vars

----------------------------------------------------------------------------
(* Properties *)

RECURSIVE SumOver(_, _)
SumOver(S, f) ==
    IF S = {} THEN 0
    ELSE LET x == CHOOSE y \in S : TRUE IN f[x] + SumOver(S \ {x}, f)

AnimeLikes(a) == {l \in likes : l.anime = a /\ l.episode = Null}

EpisodeLikes(e) == {l \in likes : l.episode = e}

Reconciled(row, rows) ==
    /\ Stored(row, "total_likes") = Cardinality({l \in rows : l.is_like})
    /\ Stored(row, "total_dislikes") = Cardinality({l \in rows : ~l.is_like})

\* C1: after any sequence of sequential like toggles, every target's
\* total_likes is the number of its Like rows with is_like true and its
\* total_dislikes (0 where no such column is stored) the number
\* with is_like false (so their sum is the number of its Like rows).
C1_LikeCountersReconcile ==
    Quiescent =>
        /\ \A a \in Animes : Reconciled(animes[a], AnimeLikes(a))
        /\ \A e \in Episodes : Reconciled(episodes[e], EpisodeLikes(e))

\* C2: under sequential calls the record change of setReaction(wantLike) is the
\* three-state machine: no row -> one row with is_like = wantLike; a row with
\* is_like = wantLike -> no row; a row with the other value -> the same row
\* with is_like = wantLike; no other actor's or target's row changes.
C2_LikeStateMachine ==
    [][\A p \in Procs :
        (pc[p] = "like_write" /\ pc'[p] # "like_write") =>
            LET cur == LikeLookup(req[p])
                nxt == LikeLookup(req[p])'
                want == req[p].is_like
            IN  /\ Cardinality(cur) <= 1
                /\ cur = {} => \E l \in nxt : nxt = {l} /\ l.is_like = want
                /\ \A x \in cur : x.is_like = want => nxt = {}
                /\ \A x \in cur :
                        x.is_like # want => nxt = {[x EXCEPT !.is_like = want]}
                /\ likes' \ nxt = likes \ cur]_vars

\* C2 witness: a second call with the same value has removed the row.
C2_ToggledOff ==
    \E p \in Procs :
        /\ pc[p] = "like_count"
        /\ req[p].existing # {}
        /\ LikeTransition(req[p].existing, req[p].is_like) = "delete"
        /\ LikeLookup(req[p]) = {}

\* C3: the counter statement of every setReaction call changes the counters as
\* its transition requires (create: +1 on the requested reaction only; removal:
\* -1 on the removed reaction only; flip: -1 on the old and +1 on the new), and
\* the call reports created, removed or updated.
C3_OneCounterMutationPerCall ==
    [][\A p \in Procs :
        (pc[p] = "like_count" /\ pc'[p] = "done") =>
            LET r == req[p]
                kind == LikeTransition(r.existing, r.is_like)
                dl == Stored(LikeTargetRow(r)', "total_likes")
                        - Stored(LikeTargetRow(r), "total_likes")
                dd == Stored(LikeTargetRow(r)', "total_dislikes")
                        - Stored(LikeTargetRow(r), "total_dislikes")
            IN  /\ resp'[p].action = LikeAction(kind)
                /\ kind = "create" =>
                        /\ dl = (IF r.is_like THEN 1 ELSE 0)
                        /\ dd = (IF r.is_like THEN 0 ELSE 1)
                /\ kind = "delete" =>
                        /\ dl = (IF r.is_like THEN -1 ELSE 0)
                        /\ dd = (IF r.is_like THEN 0 ELSE -1)
                /\ kind = "update" =>
                        /\ dl = (IF r.is_like THEN 1 ELSE -1)
                        /\ dd = -dl]_vars

C5_ConcurrentFirstViewsCountOnce ==
    \A p, q \in Procs :
        ( /\ p # q
          /\ pc[p] = "done" /\ pc[q] = "done"
          /\ req[p].op = "watch" /\ req[q].op = "watch"
          /\ resp[p].success /\ resp[q].success
          /\ ActorKey(req[p]) = ActorKey(req[q])
          /\ req[p].anime = req[q].anime /\ req[p].episode = req[q].episode
          /\ ~req[p].view_exists /\ ~req[q].view_exists )
        => /\ Cardinality(WatchLookup(req[p])) = 1
           /\ viewsCounted[ActorKey(req[p])].episode = 1
           /\ viewsCounted[ActorKey(req[p])].anime = 1

\* C6: once every favorite request has completed, each anime's total_favorites
\* is the number of Favorite rows that reference it.
C6_FavoritesReconcile ==
    Quiescent =>
        \A a \in Animes :
            animes[a].total_favorites = Cardinality({f \in favorites : f.anime = a})

\* C7: a request that failed has either committed both its record change and
\* its counter change or neither of them.
C7_RecordAndCounterTogether ==
    \A p \in Procs :
        (pc[p] = "done" /\ req[p].op # "none" /\ ~resp[p].success) =>
            req[p].wrote \in {{}, {"record", "counter"}}

\* C8: at most one Like row exists per (actor, target), whatever the
\* interleaving of concurrent setReaction calls.
C8_OneLikePerActorAndTarget ==
    \A k \in ActorKeys :
        /\ \A a \in Animes :
            Cardinality({l \in AnimeLikes(a) :
                            <<l.user, l.anonymous_session>> = k}) <= 1
        /\ \A e \in Episodes :
            Cardinality({l \in EpisodeLikes(e) :
                            <<l.user, l.anonymous_session>> = k}) <= 1

\* C8 witness: of two concurrent first likes by one actor on one target, this
\* request lost the insert to the unique constraint.
C8_LostInsertRace ==
    \E p \in Procs :
        /\ pc[p] = "done"
        /\ req[p].op = "like"
        /\ req[p].existing = {}
        /\ req[p].wrote = {}
        /\ resp[p].status = 500
        /\ LikeLookup(req[p]) # {}

FavoriteCalls(k) == [i \in 1..Len(favOps[k]) |-> favOps[k][i][1]]

AddRemoveAdd(k) ==
    /\ Idle
    /\ FavoriteCalls(k) = <<"add", "remove", "add">>
    /\ \A j \in ActorKeys \ {k} : favOps[j] = <<>>

\* C9: from no Favorite row, the calls add, remove, add by one actor (and no
\* call by anyone else) end with exactly one Favorite row of that actor for
\* the anime and total_favorites one above its initial 0.
C9_AddRemoveAddNetOne ==
    \A k \in ActorKeys :
        AddRemoveAdd(k) =>
            \A a \in Animes :
                /\ Cardinality({f \in favorites :
                        f.anime = a /\ <<f.user, f.anonymous_session>> = k}) = 1
                /\ animes[a].total_favorites = 1

\* C9 witness: some actor's calls were add, remove, add.
C9_AddRemoveAddDone == \E k \in ActorKeys : AddRemoveAdd(k)

\* C10 as stated: add on an existing favorite and remove on a missing one
\* change no row and no counter and answer with a non-error response.
C10_RepeatedCallNeverErrors ==
    [][\A p \in Procs :
        ( \/ pc[p] = "fav_add_check" /\ FavoriteLookup(req[p]) # {}
          \/ pc[p] = "fav_del_read" /\ FavoriteLookup(req[p]) = {} )
        /\ pc'[p] # pc[p]
        => /\ pc'[p] = "done"
           /\ favorites' = favorites /\ animes' = animes
           /\ resp'[p].success]_vars

\* C10 as amended: add on an existing favorite changes no row and no counter
\* and answers 200 "Anime already in favorites"; remove on a missing favorite
\* changes no row and no counter and answers the error 404 "Anime not in
\* favorites".
C10_RepeatedCallLeavesState ==
    [][\A p \in Procs :
        /\ (pc[p] = "fav_add_check" /\ FavoriteLookup(req[p]) # {}
                /\ pc'[p] # pc[p])
            => /\ pc'[p] = "done"
               /\ favorites' = favorites /\ animes' = animes
               /\ resp'[p] = Response(200, TRUE, "Anime already in favorites", "")
        /\ (pc[p] = "fav_del_read" /\ FavoriteLookup(req[p]) = {}
                /\ pc'[p] # pc[p])
            => /\ pc'[p] = "done"
               /\ favorites' = favorites /\ animes' = animes
               /\ resp'[p] = Response(404, FALSE, "Anime not in favorites", "")]_vars

\* C10 witness: one actor has repeated an add and has removed a missing favorite.
C10_RepeatedCallsDone ==
    \E k \in ActorKeys :
        /\ \E i \in 1..Len(favOps[k]) : favOps[k][i] = <<"add", 200>>
        /\ \E i \in 1..Len(favOps[k]) : favOps[k][i] = <<"remove", 404>>

\* C11: when a favorite add has passed the existence check and a concurrent
\* add by the same actor for the same anime has stored the row first, the
\* later create leaves that one row and total_favorites as they are and the
\* call answers with a non-error outcome.
C11_LostAddRaceIsNotAnError ==
    [][\A p \in Procs :
        ( /\ pc[p] = "fav_add_create" /\ pc'[p] # pc[p]
          /\ FavoriteLookup(req[p]) # {} )
        => /\ Cardinality(FavoriteLookup(req[p])') = 1
           /\ animes' = animes
           /\ resp'[p].success]_vars

WatchesOf(k, a, e) ==
    {w \in watches :
        <<w.user, w.anonymous_session>> = k /\ w.anime = a /\ w.episode = e}

\* C12: every state holds at most one WatchHistory row per (actor, anime,
\* episode); a recordWatch call that finds a row for its triple changes no
\* view counter, adds no row and stores the country and the duration and
\* completed values it was given in that same row.
C12_WatchUpsertedInPlace ==
    /\ [](\A k \in ActorKeys, a \in Animes, e \in Episodes :
            Cardinality(WatchesOf(k, a, e)) <= 1)
    /\ [][\A p \in Procs :
            /\ (pc[p] = "watch_check" /\ pc'[p] # pc[p] /\ WatchLookup(req[p]) # {})
                => /\ pc'[p] = "watch_upsert_get"
                   /\ UNCHANGED <<watches, animes, episodes>>
            /\ (pc[p] = "watch_upsert_get" /\ pc'[p] # pc[p] /\ req[p].view_exists)
                => /\ UNCHANGED <<animes, episodes>>
                   /\ pc'[p] = "done"
                   /\ \E w \in watches, n \in watches' :
                        /\ WatchLookup(req[p]) = {w}
                        /\ watches' = (watches \ {w}) \cup {n}
                        /\ n = WatchDefaults(req[p], w)
                        /\ n.id = w.id
                        /\ \A f \in {"watch_duration_seconds", "completed", "country"} :
                              Has(req[p].data, f) => n[f] = req[p].data[f]]_vars

\* C12 witness: a call that found the triple's row has replaced the values
\* stored in it.
C12_RowRewritten ==
    \E p \in Procs :
        /\ pc[p] = "done"
        /\ req[p].op = "watch"
        /\ req[p].view_exists
        /\ resp[p].status = 200
        /\ \E w \in WatchLookup(req[p]) :
              /\ w.id = 1
              /\ w.country = "KZ"
              /\ w.completed
              /\ w.watch_duration_seconds = 10

\* C13: once every listing request has returned, a token carried by N
\* unauthenticated requests has exactly one AnonymousSession row and its
\* total_visits is N; a token no such request carried has no row.
C13_VisitsCountEveryCall ==
    Quiescent =>
        \A t \in Tokens :
            LET rows == {s \in sessions : s.session_token = t}
            IN  IF tracked[t] = 0 THEN rows = {}
                ELSE /\ Cardinality(rows) = 1
                     /\ \A s \in rows : s.total_visits = tracked[t]

\* C13 witness: of two concurrent first requests with one token, this one
\* lost the insert and counted its visit on the other's row; a third visit
\* followed.
C13_LostInsertStillCounted ==
    /\ Quiescent
    /\ \E t \in Tokens : tracked[t] = 3
    /\ \E p, q \in Procs :
        /\ p # q
        /\ pc[p] = "done" /\ pc[q] = "done"
        /\ req[p].op = "track" /\ req[q].op = "track"
        /\ req[p].integrity_error /\ ~req[p].created
        /\ req[q].anonymous_session = req[p].anonymous_session

\* Requests p and q are the only two received, both have returned 201 for the
\* same operation, and they came from distinct actors.
TwoFirstCalls(p, q, op) ==
    /\ p # q
    /\ nreq = 2
    /\ pc[p] = "done" /\ pc[q] = "done"
    /\ req[p].op = op /\ req[q].op = op
    /\ resp[p].status = 201 /\ resp[q].status = 201
    /\ ActorKey(req[p]) # ActorKey(req[q])
    /\ req[p].anime = req[q].anime

\* C14: two first-time calls by distinct actors on one target, in any
\* interleaving, leave the target's counter 2 above its initial 0: total_likes
\* for two likes, total_views (episode and anime) for two first views,
\* total_favorites for two favorite adds.
C14_ConcurrentIncrementsAllCount ==
    \A p, q \in Procs :
        /\ ( /\ TwoFirstCalls(p, q, "like")
             /\ req[p].episode = req[q].episode
             /\ req[p].is_like /\ req[q].is_like )
            => LikeTargetRow(req[p]).total_likes = 2
        /\ ( /\ TwoFirstCalls(p, q, "watch")
             /\ req[p].episode = req[q].episode )
            => /\ episodes[req[p].episode].total_views = 2
               /\ animes[req[p].anime].total_views = 2
        /\ TwoFirstCalls(p, q, "fav_add")
            => animes[req[p].anime].total_favorites = 2

\* C14 witness: two first likes by distinct actors on one target overlap: this
\* request inserted its row after the other's and has already counted, while
\* the other's counter statement is still to run.
C14_IncrementBetweenInsertAndCount ==
    \E p, q \in Procs :
        /\ pc[p] = "done" /\ req[p].op = "like" /\ resp[p].status = 201
        /\ pc[q] = "like_count" /\ req[q].op = "like"
        /\ req[p].is_like /\ req[q].is_like
        /\ req[q].existing = {}
        /\ ActorKey(req[p]) # ActorKey(req[q])
        /\ req[p].anime = req[q].anime /\ req[p].episode = req[q].episode
        /\ \E l \in LikeLookup(req[p]) : l.id = 2
        /\ \E l \in LikeLookup(req[q]) : l.id = 1
        /\ LikeTargetRow(req[p]).total_likes = 1

\* C15: a recordWatch call that carries a duration is answered with the
\* validation error exactly when the duration exceeds the episode's
\* duration_seconds, or completed is true and 10 * duration <
\* 9 * duration_seconds; completed at exactly 90% is therefore accepted.
C15_RejectedExactlyBelowNinetyPercent ==
    \A p \in Procs :
        (req[p].op = "watch" /\ Has(req[p].data, "watch_duration_seconds")) =>
            LET d == req[p].data["watch_duration_seconds"]
                D == episodes[req[p].episode].duration_seconds
                completed == Has(req[p].data, "completed") /\ req[p].data["completed"]
            IN  (resp[p].status = 422) <=> (d > D \/ (completed /\ 10 * d < 9 * D))

\* C15 witness: completed at exactly 90% of a 110-second episode was recorded.
C15_ExactlyNinetyPercentAccepted ==
    \E p \in Procs :
        /\ pc[p] = "done"
        /\ req[p].op = "watch"
        /\ resp[p].status = 201
        /\ episodes[req[p].episode].duration_seconds = 110
        /\ req[p].data = ("watch_duration_seconds" :> 99) @@ ("completed" :> TRUE)

\* Request p is a post whose body names as parent a stored comment on an
\* episode other than the episode posted to.
ReplyAcrossEpisodes(r) ==
    /\ r.op = "comment"
    /\ r.episode # Null
    /\ r.data.parent # NoParent
    /\ \E parent \in CommentById(r.data.parent) :
          parent.episode # Null /\ parent.episode # r.episode

\* C16: a post whose parent is a comment on a different episode than the one
\* posted to is answered with the validation error at once; no Comment row is
\* created and no total_comments changes.
C16_ReplyAcrossEpisodesRejected ==
    [][\A p \in Procs :
        (pc[p] = "idle" /\ pc'[p] # "idle" /\ ReplyAcrossEpisodes(req'[p]))
        => /\ pc'[p] = "done"
           /\ resp'[p].status = 422 /\ ~resp'[p].success
           /\ UNCHANGED <<comments, animes, episodes>>]_vars

\* C16 witness: a reply with a text, posted to one episode with a parent on
\* the other, was rejected.
C16_CrossEpisodeReplyRefused ==
    \E p \in Procs :
        /\ pc[p] = "done"
        /\ ReplyAcrossEpisodes(req[p])
        /\ req[p].data.comment = "hi"
        /\ req[p].user # Null
        /\ resp[p].status = 422

\* The total_comments of the target a comment request posts to
TargetComments(r, an, ep) ==
    IF r.episode # Null THEN ep[r.episode].total_comments
    ELSE an[r.anime].total_comments

\* C17: the create statement of a post stores one new comment, approved when
\* the actor is a user, unapproved with the given guest_name ('Anonymous' when
\* none was given) when the actor is a session; the statement that follows
\* adds exactly 1 to the target's total_comments and the post answers 201.
C17_CommentStoredAndCounted ==
    [][\A p \in Procs :
        /\ (pc[p] = "comment_create" /\ pc'[p] = "comment_count") =>
              \E c \in comments' :
                /\ c \notin comments /\ comments' = comments \cup {c}
                /\ c.user = req[p].user
                /\ c.anonymous_session = req[p].anonymous_session
                /\ req[p].user # Null => c.is_approved
                /\ req[p].user = Null =>
                      /\ ~c.is_approved
                      /\ c.guest_name = IF req[p].data.guest_name = Null
                                        THEN "Anonymous"
                                        ELSE req[p].data.guest_name
        /\ (pc[p] = "comment_count" /\ pc'[p] # pc[p]) =>
              /\ TargetComments(req[p], animes', episodes')
                    = TargetComments(req[p], animes, episodes) + 1
              /\ resp'[p].status = 201 /\ resp'[p].success
        /\ (req[p].op = "comment" /\ resp[p].status # 201
                /\ resp'[p].status = 201) =>
              pc[p] = "comment_count"]_vars

\* C17 witness: a session's post without guest_name has returned 201; its
\* comment is stored unapproved under 'Anonymous' and the target counts it.
C17_GuestCommentCounted ==
    \E p \in Procs :
        /\ pc[p] = "done"
        /\ req[p].op = "comment"
        /\ resp[p].status = 201
        /\ req[p].user = Null
        /\ req[p].data.guest_name = Null
        /\ TargetComments(req[p], animes, episodes) = 1
        /\ \E c \in comments :
              /\ c.anonymous_session = req[p].anonymous_session
              /\ c.guest_name = "Anonymous"
              /\ ~c.is_approved

\* Request r is an edit or a delete of a stored comment that the requester
\* (a user, a session or nobody) does not own.
NotOwnersRequest(r) ==
    /\ r.op \in {"comment_edit", "comment_delete"}
    /\ r.comment # {}
    /\ \A c \in r.comment :
          <<c.user, c.anonymous_session>> # <<r.user, r.anonymous_session>>

\* C18: an edit or delete of a stored comment by anyone but its owning actor,
\* a request with no actor included, is answered 403 at once and changes no
\* Comment row and no total_comments; every edit or delete that succeeds was
\* requested by the owning actor.
C18_OnlyOwnerEditsOrDeletes ==
    [][\A p \in Procs :
        /\ (pc[p] = "idle" /\ pc'[p] # "idle" /\ NotOwnersRequest(req'[p]))
            => /\ pc'[p] = "done"
               /\ resp'[p].status = 403 /\ ~resp'[p].success
               /\ UNCHANGED <<comments, animes, episodes>>
        /\ ( /\ req[p].op \in {"comment_edit", "comment_delete"}
             /\ pc'[p] # pc[p]
             /\ \/ comments' # comments
                \/ animes' # animes
                \/ episodes' # episodes
                \/ resp'[p].success )
            => ~NotOwnersRequest(req[p])]_vars

\* C18 witness: a delete of a user's comment, which has a reply, was refused
\* to another user; the comment and the reply are stored.
C18_StrangerRefused ==
    \E p \in Procs :
        /\ pc[p] = "done"
        /\ req[p].op = "comment_delete"
        /\ req[p].user # Null
        /\ resp[p].status = 403
        /\ \E c \in comments :
              /\ c.id = req[p].id
              /\ c.user # Null
              /\ \E reply \in comments : reply.parent = c.id

\* Request r reached a handler that needs an actor and carried none.
NoActorRequest(r) ==
    /\ r.op \in {"like", "fav_add", "fav_remove", "watch", "comment"}
    /\ r.user = Null /\ r.token = Null

\* The stored rows and counters
Stored_All == <<sessions, likes, favorites, watches, comments, animes, episodes>>

\* C19: a like toggle, favorite add, favorite remove, recordWatch or comment
\* post without user and without session token is answered at once with a
\* client error (400, or 422 when its body is invalid as well) and changes no
\* row, no counter and no AnonymousSession.
C19_NoActorChangesNothing ==
    [][\A p \in Procs :
        (pc[p] = "idle" /\ pc'[p] # "idle" /\ NoActorRequest(req'[p]))
        => /\ pc'[p] = "done"
           /\ resp'[p].status \in {400, 422} /\ ~resp'[p].success
           /\ Stored_All' = Stored_All]_vars

\* C19 witness: after a session's request, a comment post with a valid body
\* and no actor was answered 400.
C19_ActorlessCommentRefused ==
    \E p \in Procs :
        /\ pc[p] = "done"
        /\ NoActorRequest(req[p])
        /\ req[p].op = "comment"
        /\ req[p].data.comment = "hi"
        /\ resp[p].status = 400
        /\ sessions # {}

\* C20: no statement of a request that carries a registered user's credential,
\* with or without a session token beside it, creates or changes an
\* AnonymousSession row, and the handler's actor is that user and no session.
C20_AuthenticatedNeverTracked ==
    [][\A p \in Procs :
        (pc[p] # "done" /\ pc'[p] # pc[p] /\ req'[p].user # Null)
        => /\ sessions' = sessions
           /\ req'[p].anonymous_session = Null]_vars

\* C20 witness: a user's request that carried the token of a stored session
\* has succeeded and the session's total_visits is still 1.
C20_TokenBesideCredentialIgnored ==
    \E p \in Procs :
        /\ pc[p] = "done"
        /\ req[p].user # Null
        /\ req[p].token # Null
        /\ resp[p].success
        /\ \E s \in sessions :
              s.session_token = req[p].token /\ s.total_visits = 1

\* The total_comments of every target but the one comment c is stored on
OtherTargetComments(c, an, ep) ==
    <<[a \in DOMAIN an \ {c.anime} |-> an[a].total_comments],
      [e \in DOMAIN ep \ {c.episode} |-> ep[e].total_comments]>>

\* C22: the delete of a comment by its owner subtracts exactly 1 from the
\* total_comments of the comment's target (its episode, or its anime when it
\* has no episode) in one statement, and no statement of the delete changes
\* the total_comments of another target.
C22_DeleteUncountsOwnTarget ==
    [][\A p \in Procs :
        /\ (pc[p] = "comment_del_count" /\ pc'[p] # pc[p]) =>
              \A c \in req[p].comment :
                /\ TargetComments(c, animes', episodes')
                      = TargetComments(c, animes, episodes) - 1
                /\ OtherTargetComments(c, animes', episodes')
                      = OtherTargetComments(c, animes, episodes)
        /\ (req'[p].op = "comment_delete" /\ pc[p] # "comment_del_count"
                /\ pc'[p] # pc[p]) =>
              /\ animes' = animes /\ episodes' = episodes
              /\ resp'[p].status = 200 => pc[p] = "comment_del_row"]_vars

\* C22 witness: the owner's delete of an episode comment has returned 200 while
\* the other episode still counts a comment of its own.
C22_EpisodeCommentDeleted ==
    \E p \in Procs :
        /\ pc[p] = "done"
        /\ req[p].op = "comment_delete"
        /\ resp[p].status = 200
        /\ \E c \in req[p].comment :
              /\ c.episode # Null
              /\ episodes[c.episode].total_comments = 0
              /\ \E e \in DOMAIN episodes \ {c.episode} :
                    episodes[e].total_comments = 1

\* C26: every Like row has exactly one of anime and episode set; the row a
\* toggle creates carries the episode alone when an episode is addressed and
\* the anime alone otherwise; and no statement of a toggle addressed to an
\* episode changes a column of an Anime row.
C26_LikeOnOneTargetOnly ==
    /\ [](\A l \in likes : (l.anime = Null) # (l.episode = Null))
    /\ [][\A p \in Procs :
            /\ (pc[p] = "like_write" /\ pc'[p] = "like_count") =>
                  \A l \in likes' \ likes :
                    IF req[p].episode # Null
                    THEN l.episode = req[p].episode /\ l.anime = Null
                    ELSE l.anime = req[p].anime /\ l.episode = Null
            /\ (req'[p].op = "like" /\ req'[p].episode # Null /\ pc'[p] # pc[p])
                  => animes' = animes]_vars

\* C26 witness: an episode like was created and counted on the episode while
\* the anime counts none.
C26_EpisodeLikeCounted ==
    \E p \in Procs :
        /\ pc[p] = "done"
        /\ req[p].op = "like"
        /\ req[p].episode # Null
        /\ resp[p].status = 201
        /\ episodes[req[p].episode].total_likes = 1
        /\ animes[req[p].anime].total_likes = 0
        /\ \E l \in likes : l.episode = req[p].episode /\ l.anime = Null

\* The Comment rows stored on an anime itself, and on an episode
AnimeComments(a) == {c \in comments : c.anime = a /\ c.episode = Null}

EpisodeComments(e) == {c \in comments : c.episode = e}

\* C27: whenever every comment request received has been answered, each
\* anime's and each episode's total_comments is the number of Comment rows
\* stored on it, also after the delete of a comment that had replies.
C27_CommentsReconcile ==
    Quiescent =>
        /\ \A a \in Animes :
              animes[a].total_comments = Cardinality(AnimeComments(a))
        /\ \A e \in AllEpisodes :
              episodes[e].total_comments = Cardinality(EpisodeComments(e))

\* Request r is a post with a text whose body names as parent a stored comment
\* on the very target posted to.
ReplyOnSameTarget(r) ==
    /\ r.op = "comment"
    /\ Strip(r.data.comment) # ""
    /\ r.data.parent # NoParent
    /\ \E parent \in CommentById(r.data.parent) :
          IF r.episode # Null
          THEN parent.episode = r.episode
          ELSE parent.anime = r.anime /\ parent.episode = Null

\* C28: a post by a user or a session whose parent is a stored comment on the
\* same episode (or, for a post to the anime, on the same anime) passes
\* validation, its create statement stores a row with that parent on that
\* target, and the statement after it adds 1 to the target's total_comments.
C28_SameTargetReplyAccepted ==
    [][\A p \in Procs :
        /\ ( /\ pc[p] = "idle" /\ pc'[p] # "idle"
             /\ ReplyOnSameTarget(req'[p])
             /\ (req'[p].user # Null \/ req'[p].anonymous_session # Null) )
            => pc'[p] = "comment_create"
        /\ (pc[p] = "comment_create" /\ pc'[p] # pc[p]
                /\ ReplyOnSameTarget(req[p])) =>
              /\ pc'[p] = "comment_count"
              /\ \E c \in comments' \ comments :
                    /\ c.parent = req[p].data.parent
                    /\ c.episode = req[p].episode
        /\ (pc[p] = "comment_count" /\ pc'[p] # pc[p]
                /\ req[p].data.parent # NoParent) =>
              TargetComments(req[p], animes', episodes')
                  = TargetComments(req[p], animes, episodes) + 1]_vars

\* C29: every stored WatchHistory row with completed true has a
\* watch_duration_seconds that is present, at most the episode's
\* duration_seconds and at least 90% of it.
C29_CompletedRowsWatchedEnough ==
    \A w \in watches :
        w.completed =>
            /\ w.watch_duration_seconds # -1
            /\ w.watch_duration_seconds <= episodes[w.episode].duration_seconds
            /\ 10 * w.watch_duration_seconds
                  >= 9 * episodes[w.episode].duration_seconds

\* C30: under any interleaving of requests, no total_likes, total_favorites
\* or total_comments of an anime or an episode is below 0.
C30_CountersNeverNegative ==
    /\ \A a \in DOMAIN animes :
          /\ animes[a].total_likes >= 0
          /\ animes[a].total_favorites >= 0
          /\ animes[a].total_comments >= 0
    /\ \A e \in DOMAIN episodes :
          /\ episodes[e].total_likes >= 0
          /\ episodes[e].total_comments >= 0

\* C24: every stored comment that has a parent is stored on its parent's
\* target: the same anime and the same episode.
C24_ReplyOnParentsTarget ==
    \A c \in comments :
        c.parent # NoParent =>
            \A parent \in CommentById(c.parent) :
                parent.anime = c.anime /\ parent.episode = c.episode

\* identifier is the primary key or, whatever its case, the slug of row
Names(identifier, row) ==
    \/ identifier \in DOMAIN IntOf /\ IntOf[identifier] = row.id
    \/ Lower(identifier) = Lower(row.slug)

\* No published anime is named, or no published episode of it is
NoSuchTarget(anime_identifier, episode_identifier) ==
    \A a \in DOMAIN AnimeTable :
        AnimeTable[a].is_published /\ Names(anime_identifier, AnimeTable[a]) =>
            /\ episode_identifier # Null
            /\ \A e \in DOMAIN EpisodeTable :
                ~(/\ EpisodeTable[e].anime = a
                  /\ EpisodeTable[e].is_published
                  /\ Names(episode_identifier, EpisodeTable[e]))

\* C21: a like toggle, favorite add or remove, recordWatch or comment post
\* that names no published anime, or no published episode of the anime it
\* names, is answered 404 and leaves every stored row and counter as it was;
\* a request the handler does act on has a published target, the episode
\* being one of the anime's.
C21_MissingTargetNotFound ==
    [][\A p \in Procs :
        pc[p] = "idle" /\ pc'[p] # "idle" =>
            IF "anime_identifier" \in DOMAIN req'[p]
            THEN NoSuchTarget(req'[p].anime_identifier, req'[p].episode_identifier) =>
                    resp'[p].status = 404 /\ Stored_All' = Stored_All
            ELSE /\ AnimeTable[req'[p].anime].is_published
                 /\ "episode" \in DOMAIN req'[p] /\ req'[p].episode # Null =>
                        /\ EpisodeTable[req'[p].episode].is_published
                        /\ EpisodeTable[req'[p].episode].anime = req'[p].anime]_vars

\* The WatchHistory rows of episode e
EpisodeViews(e) == {w \in watches : w.episode = e}

\* C23: whenever no request is in progress, after episode detail views and
\* recordWatch calls made one at a time by users, sessions and requests with
\* neither, every episode's total_views is the number of its WatchHistory rows.
C23_ViewsReconcile ==
    Quiescent =>
        \A e \in DOMAIN EpisodeTable :
            episodes[e].total_views = Cardinality(EpisodeViews(e))

\* An actor without premium entitlement for episode e, stated from the
\* tables alone
Unentitled(user, e) ==
    /\ EpisodeTable[e].is_premium_only \/ AnimeTable[EpisodeTable[e].anime].is_premium_only
    /\ \/ user = Null
       \/ ~UserTable[user].is_premium
       \/ /\ UserTable[user].premium_expires_at # NoExpiry
          /\ UserTable[user].premium_expires_at < Now

\* C25: an episode detail view or recordWatch call on a premium-gated episode
\* by a request without premium entitlement is answered 403 at once, and no
\* step of any such request changes total_views or the WatchHistory rows.
C25_PremiumGateHolds ==
    [][\A p \in Procs :
        /\ pc[p] = "idle" /\ pc'[p] # "idle" /\ "episode" \in DOMAIN req'[p]
           /\ Unentitled(req'[p].user, req'[p].episode)
           => pc'[p] = "done" /\ resp'[p].status = 403
        /\ pc[p] # "idle" /\ pc'[p] # pc[p] /\ "episode" \in DOMAIN req[p]
           /\ Unentitled(req[p].user, req[p].episode)
           => <<watches, animes, episodes>>' = <<watches, animes, episodes>>]_vars

====
